---- MODULE Spec2Model ----
(***************************************************************************)
(* Model of the logo service: the SVG sanitizer and structural validator   *)
(* (container/app/admin/sanitizer.py), the similarity query of the logo    *)
(* store (container/app/rag), the ingestion of one logo and of batches     *)
(* (container/app/admin/ingestion.py), the management of stored logos      *)
(* (container/app/admin/management.py) and the admin key of the routes     *)
(* (container/app/admin/auth.py).                                          *)
(*                                                                         *)
(* A markup string is modelled by the features the code reads from it:     *)
(* whether it is blank, whether it carries surrounding whitespace, whether *)
(* it starts with an XML prolog, whether the XML parser accepts it, and    *)
(* the elements it writes down, in document order.  Attribute values and   *)
(* style text are sequences of characters, so that the regular             *)
(* expressions of the sanitizer are evaluated character by character.      *)
(***************************************************************************)
EXTENDS Integers, Sequences, FiniteSets, TLC

VARIABLES input, pc, res, res2, val,   \* the sanitizer and the validator
          args, fn, ret,                \* one call of a query-side function
          batch_jobs, task,             \* the batch registry and its tasks
          store, audit_log              \* the logo store and the audit log

vars == <<input, pc, res, res2, val, args, fn, ret, batch_jobs, task,
          store, audit_log>>

\* the value of a variable that a specification does not use
Unused == "unused"

(***************************************************************************)
(* Bounds of the explored inputs.                                          *)
(***************************************************************************)
MaxNodes == 3
MaxAttrs == 2
MaxCssPieces == 5

(***************************************************************************)
(* Characters and names.                                                   *)
(***************************************************************************)
UpperLetters == <<"A","B","C","D","E","F","G","H","I","J","K","L","M",
                  "N","O","P","Q","R","S","T","U","V","W","X","Y","Z">>
LowerLetters == <<"a","b","c","d","e","f","g","h","i","j","k","l","m",
                  "n","o","p","q","r","s","t","u","v","w","x","y","z">>

\* str.lower() / re.IGNORECASE on one character
Lower(c) ==
    IF \E k \in 1..26 : UpperLetters[k] = c
    THEN LowerLetters[CHOOSE k \in 1..26 : UpperLetters[k] = c]
    ELSE c

\* str.lower() on the element and attribute names that occur in the model
LowerName(n) ==
    CASE n = "SVG" -> "svg"
      [] n = "RECT" -> "rect"
      [] n = "linearGradient" -> "lineargradient"
      [] n = "onClick" -> "onclick"
      [] n = "viewBox" -> "viewbox"
      [] OTHER -> n

ALLOWED_ELEMENTS ==
    {"svg", "g", "path", "rect", "circle", "ellipse", "line", "polyline",
     "polygon", "text", "tspan", "defs", "linearGradient", "radialGradient",
     "stop", "clipPath", "mask", "use", "symbol", "title", "desc",
     "metadata", "style", "font", "font-face", "glyph", "missing-glyph"}

DANGEROUS_ATTRIBUTES ==
    {"onload", "onerror", "onclick", "onmouseover", "onmouseout",
     "onmousedown", "onmouseup", "onfocus", "onblur", "onkeydown", "onkeyup",
     "onkeypress", "onchange", "onsubmit", "onreset", "onselect", "onabort"}

DANGEROUS_PATTERNS ==
    { <<"j","a","v","a","s","c","r","i","p","t",":">>,
      <<"d","a","t","a",":">>,
      <<"v","b","s","c","r","i","p","t",":">> }

\* the namespaces an element or attribute name can be in
NoNs == "none"
SvgNs == "http://www.w3.org/2000/svg"
OtherNs == "http://www.w3.org/1999/xlink"


(***************************************************************************)
(* Markup strings and parsed trees.                                        *)
(*                                                                         *)
(* A markup string (Doc):                                                  *)
(*   blank   the string is empty or only whitespace                        *)
(*   ws      the string has whitespace before its first character          *)
(*   prolog  the trimmed string starts with "<?xml"                        *)
(*   defect  "none": the parser accepts the string; "syntax": it is not    *)
(*           well-formed XML (unclosed or mismatched tag, junk after the   *)
(*           root); "surrogate": it holds a lone surrogate code point,     *)
(*           which is no XML character and which str cannot encode         *)
(*   nodes   the elements written in the string, in document order; each   *)
(*           has the index of its parent (0 for the root), whether its     *)
(*           tag is written with the prefix bound to the SVG namespace     *)
(*           (prefixed), whether it carries the declaration                *)
(*           xmlns="http://www.w3.org/2000/svg" (decl), its local name,    *)
(*           its attributes and its text                                   *)
(* An attribute is [ns, name, value]; a parsed element is                  *)
(* [parent, tag: [ns, local], attrib, text, orig], orig being the index    *)
(* the element had in the parsed input.                                    *)
(***************************************************************************)
BlankDoc ==
    [blank |-> TRUE, ws |-> FALSE, prolog |-> FALSE, defect |-> "none",
     nodes |-> <<>>]

MkNode(parent, prefixed, decl, local, attrs, text) ==
    [parent |-> parent, prefixed |-> prefixed, decl |-> decl,
     local |-> local, attrs |-> attrs, text |-> text]

MkDoc(ws, prolog, defect, nodes) ==
    [blank |-> FALSE, ws |-> ws, prolog |-> prolog, defect |-> defect,
     nodes |-> nodes]

\* content.startswith("<svg"): the first tag is unprefixed and its name
\* begins with svg (among the names of the model: svg itself)
StartsWithSvg(d) ==
    /\ ~d.blank /\ ~d.prolog /\ Len(d.nodes) > 0
    /\ ~d.nodes[1].prefixed /\ d.nodes[1].local = "svg"

\* content.startswith("<?xml")
StartsWithXml(d) == ~d.blank /\ d.prolog

\* ancestors of node i, i included, in a sequence of nodes with parent fields
RECURSIVE AncOrSelf(_, _)
AncOrSelf(nodes, i) ==
    IF i = 0 THEN {} ELSE {i} \cup AncOrSelf(nodes, nodes[i].parent)

(***************************************************************************)
(* xml.etree.ElementTree.fromstring on a str.  The text is encoded to      *)
(* UTF-8 and handed to expat: a lone surrogate raises UnicodeEncodeError   *)
(* before any parsing, a string that is not well-formed (also the empty    *)
(* string, and a prolog that is not at the very start) raises ParseError.  *)
(* An unprefixed element is in the namespace of the nearest enclosing      *)
(* default declaration; attributes keep their own namespace.               *)
(***************************************************************************)
ET_fromstring(d) ==
    IF ~d.blank /\ d.defect = "surrogate"
    THEN [exc |-> "UnicodeEncodeError", tree |-> <<>>]
    ELSE IF d.blank \/ d.defect = "syntax" \/ (d.ws /\ d.prolog)
    THEN [exc |-> "ParseError", tree |-> <<>>]
    ELSE [exc |-> "none",
          tree |-> [i \in 1..Len(d.nodes) |->
             [parent |-> d.nodes[i].parent,
              tag |-> [ns |-> IF d.nodes[i].prefixed
                                 \/ \E a \in AncOrSelf(d.nodes, i) : d.nodes[a].decl
                              THEN SvgNs ELSE NoNs,
                       local |-> d.nodes[i].local],
              attrib |-> d.nodes[i].attrs,
              text |-> d.nodes[i].text,
              orig |-> i]]]

(***************************************************************************)
(* ET.tostring(root, encoding="unicode"): no XML declaration; an element   *)
(* in a namespace is written with a generated prefix (ns0:svg) declared on *)
(* the root, never with a default xmlns declaration.                       *)
(***************************************************************************)
ET_tostring(tree) ==
    MkDoc(FALSE, FALSE, "none",
          [i \in 1..Len(tree) |->
              MkNode(tree[i].parent, tree[i].tag.ns # NoNs, FALSE,
                     tree[i].tag.local, tree[i].attrib, tree[i].text)])

\* content.strip()
Strip(d) == IF d.blank THEN d ELSE [d EXCEPT !.ws = FALSE]

(***************************************************************************)
(* _normalize_namespaces: when the literal declaration is nowhere in the   *)
(* string, the first "<svg" of the string gets it.                         *)
(***************************************************************************)
_normalize_namespaces(d) ==
    LET cands == {i \in 1..Len(d.nodes) :
                     ~d.nodes[i].prefixed /\ d.nodes[i].local = "svg"}
    IN IF (\E i \in 1..Len(d.nodes) : d.nodes[i].decl) \/ cands = {}
       THEN d
       ELSE LET f == CHOOSE i \in cands : \A j \in cands : i <= j
            IN [d EXCEPT !.nodes[f].decl = TRUE]

(***************************************************************************)
(* Regular expressions of the sanitizer, on sequences of characters.       *)
(***************************************************************************)
\* a search that compares letter case (re.IGNORECASE forgotten)
PatternSearch_casesensitive(pat, s) ==
    \E i \in 1..(Len(s) - Len(pat) + 1) :
        \A k \in 1..Len(pat) : s[i + k - 1] = pat[k]

\* pattern.search(value) for a literal pattern compiled with re.IGNORECASE
PatternSearch(pat, s) ==
    \E i \in 1..(Len(s) - Len(pat) + 1) :
        \A k \in 1..Len(pat) : Lower(s[i + k - 1]) = pat[k]

\* for pattern in DANGEROUS_PATTERNS: if pattern.search(value)
MatchesDangerousPattern(s) ==
    \E pat \in DANGEROUS_PATTERNS : PatternSearch(pat, s)

\* \s
IsSpace(c) == c \in {" "}

\* \s* from position i: the first position that holds no whitespace
RECURSIVE SkipSpace(_, _)
SkipSpace(s, i) ==
    IF i <= Len(s) /\ IsSpace(s[i]) THEN SkipSpace(s, i + 1) ELSE i

\* [^)]*\) from position i: the position of the first ")" at or after i, or 0
RECURSIVE FirstClose(_, _)
FirstClose(s, i) ==
    IF i > Len(s) THEN 0
    ELSE IF s[i] = ")" THEN i
    ELSE FirstClose(s, i + 1)

\* the opening parenthesis of word\s*\( matched at position i, or 0
OpenAfterWord(s, i, word) ==
    IF /\ i + Len(word) - 1 <= Len(s)
       /\ \A k \in 1..Len(word) : Lower(s[i + k - 1]) = word[k]
    THEN LET j == SkipSpace(s, i + Len(word))
         IN IF j <= Len(s) /\ s[j] = "(" THEN j ELSE 0
    ELSE 0

\* the last position of a match of word\s*\([^)]*\) that starts at i, or 0
CallEnd(s, i, word) ==
    LET o == OpenAfterWord(s, i, word)
    IN IF o = 0 THEN 0 ELSE FirstClose(s, o + 1)

kw_expression == <<"e","x","p","r","e","s","s","i","o","n">>
kw_url == <<"u","r","l">>

\* re.sub(r"expression\s*\([^)]*\)", "", css, flags=re.IGNORECASE), from i
RECURSIVE SubExpression(_, _)
SubExpression(s, i) ==
    IF i > Len(s) THEN <<>>
    ELSE LET e == CallEnd(s, i, kw_expression)
         IN IF e # 0 THEN SubExpression(s, e + 1)
            ELSE <<s[i]>> \o SubExpression(s, i + 1)

\* sanitize_url(match): group(1) is what follows url\s*\(\s* up to the
\* closing parenthesis; "" when it holds a dangerous scheme, else group(0)
sanitize_url(s, i, e) ==
    LET o == OpenAfterWord(s, i, kw_url)
        g == SkipSpace(s, o + 1)
    IN IF MatchesDangerousPattern(SubSeq(s, g, e - 1))
       THEN <<>>
       ELSE SubSeq(s, i, e)

\* re.sub(r"url\s*\(\s*([^)]*)\s*\)", sanitize_url, css, re.IGNORECASE), from i
RECURSIVE SubUrl(_, _)
SubUrl(s, i) ==
    IF i > Len(s) THEN <<>>
    ELSE LET e == CallEnd(s, i, kw_url)
         IN IF e # 0 THEN sanitize_url(s, i, e) \o SubUrl(s, e + 1)
            ELSE <<s[i]>> \o SubUrl(s, i + 1)

_sanitize_css(css) == SubUrl(SubExpression(css, 1), 1)

(***************************************************************************)
(* _sanitize_element                                                       *)
(***************************************************************************)
Children(tree, e) == {c \in 1..Len(tree) : tree[c].parent = e}

\* a deny-list of element names in place of the allow-list
ChildAllowed_denylist(tag) == LowerName(tag.local) # "script"

\* line 143: the child stays when its lower-cased local name is allowed
ChildAllowed(tag) == LowerName(tag.local) \in ALLOWED_ELEMENTS

\* lines 140-149: the elements of e's subtree that are still in the tree
\* after _sanitize_element(e); a removed child is not visited
RECURSIVE Survivors(_, _)
Survivors(tree, e) ==
    {e} \cup UNION {Survivors(tree, c) :
                       c \in {k \in Children(tree, e) : ChildAllowed(tree[k].tag)}}

\* the attribute name compared without lower-casing it
AttrDenied_exactcase(a) == a.name \in DANGEROUS_ATTRIBUTES

\* line 155
AttrDenied(a) == LowerName(a.name) \in DANGEROUS_ATTRIBUTES

\* lines 152-166: the attributes left on an element
SanitizeAttrib(attrib) ==
    {a \in attrib : ~AttrDenied(a) /\ ~MatchesDangerousPattern(a.value)}

\* lines 169-170
SanitizeText(tag, text) ==
    IF LowerName(tag.local) = "style" /\ text # <<>>
    THEN _sanitize_css(text)
    ELSE text

\* the elements of a set of indices, in increasing order
RECURSIVE SortedSeq(_)
SortedSeq(S) ==
    IF S = {} THEN <<>>
    ELSE LET m == CHOOSE x \in S : \A y \in S : x <= y
         IN <<m>> \o SortedSeq(S \ {m})

\* the tree after _sanitize_element(root)
_sanitize_element(tree) ==
    LET keep == SortedSeq(Survivors(tree, 1))
        NewIndex(o) == IF o = 0 THEN 0
                       ELSE CHOOSE k \in 1..Len(keep) : keep[k] = o
    IN [k \in 1..Len(keep) |->
          [parent |-> NewIndex(tree[keep[k]].parent),
           tag |-> tree[keep[k]].tag,
           attrib |-> SanitizeAttrib(tree[keep[k]].attrib),
           text |-> SanitizeText(tree[keep[k]].tag, tree[keep[k]].text),
           orig |-> tree[keep[k]].orig]]

(***************************************************************************)
(* sanitize_svg and validate_svg_structure.  A call either returns         *)
(* (status "ok") or raises (status "raise", exc the exception class).      *)
(***************************************************************************)
NoCall == [status |-> "none", exc |-> "none", doc |-> BlankDoc, tree |-> <<>>]
Raise(e) == [status |-> "raise", exc |-> e, doc |-> BlankDoc, tree |-> <<>>]

\* the declaration prepended to every output
WithProlog_always(d, svg_content) == [d EXCEPT !.prolog = TRUE]

\* lines 111-113: the declaration is put back when the input had a prolog
WithProlog(d, svg_content) ==
    IF StartsWithXml(Strip(svg_content)) THEN [d EXCEPT !.prolog = TRUE] ELSE d

sanitize_svg(svg_content) ==
    IF svg_content.blank
    THEN Raise("SVGSanitizationError")
    ELSE LET content == Strip(svg_content)
         IN IF ~StartsWithSvg(content) /\ ~StartsWithXml(content)
            THEN Raise("SVGSanitizationError")
            ELSE LET p == ET_fromstring(_normalize_namespaces(content))
                 IN IF p.exc = "ParseError" THEN Raise("SVGSanitizationError")
                    ELSE IF p.exc # "none" THEN Raise(p.exc)
                    ELSE LET root == _sanitize_element(p.tree)
                         IN [status |-> "ok", exc |-> "none",
                             doc |-> WithProlog(ET_tostring(root), svg_content),
                             tree |-> root]

NoValidation ==
    [status |-> "none", exc |-> "none", valid |-> FALSE, has_viewbox |-> FALSE,
     has_dimensions |-> FALSE, element_count |-> 0, errors |-> <<>>]

\* "name" in root.attrib: a key without namespace, compared exactly
HasAttr(attrib, name) == \E a \in attrib : a.ns = NoNs /\ a.name = name

\* a count of the elements below the root only
ElementCount_children(tree) == Len(tree) - 1

\* line 236: sum(1 for _ in root.iter())
ElementCount(tree) == Len(tree)

validate_svg_structure(svg_content) ==
    LET p == ET_fromstring(svg_content)
        init == [NoValidation EXCEPT !.status = "ok"]
    IN IF p.exc = "ParseError"
       THEN [init EXCEPT !.errors = <<"Parse error">>]
       ELSE IF p.exc # "none"
       THEN [NoValidation EXCEPT !.status = "raise", !.exc = p.exc]
       ELSE IF LowerName(p.tree[1].tag.local) # "svg"
       THEN [init EXCEPT !.errors = <<"Root element is not <svg>">>]
       ELSE [init EXCEPT
               !.has_viewbox = HasAttr(p.tree[1].attrib, "viewBox"),
               !.has_dimensions = HasAttr(p.tree[1].attrib, "width")
                                  /\ HasAttr(p.tree[1].attrib, "height"),
               !.element_count = ElementCount(p.tree),
               !.valid = TRUE]

(***************************************************************************)
(* The inputs explored: markup strings handed to sanitize_svg and          *)
(* validate_svg_structure.                                                 *)
(***************************************************************************)
\* parent indices of the trees with n elements, elements in document order
RECURSIVE AncOfShape(_, _)
AncOfShape(p, i) == IF i = 0 THEN {} ELSE {i} \cup AncOfShape(p, p[i])

RECURSIVE Shapes(_)
Shapes(n) ==
    IF n = 1 THEN {<<0>>}
    ELSE UNION {{Append(p, q) : q \in AncOfShape(p, n - 1)} : p \in Shapes(n - 1)}

RootNames == {"svg", "SVG", "script"}
ChildNames == {"rect", "RECT", "script", "linearGradient", "style"}
Defects == {"none", "syntax", "surrogate"}

\* trees of up to MaxNodes elements without attributes
TreeDoc(d) ==
    \E n \in 1..MaxNodes : \E shape \in Shapes(n) :
    \E names \in [2..n -> ChildNames] :
    \E r \in [local : RootNames, prefixed : BOOLEAN, decl : BOOLEAN] :
    \E prolog \in BOOLEAN, defect \in Defects :
        d = MkDoc(FALSE, prolog, defect,
                  [i \in 1..n |->
                     IF i = 1 THEN MkNode(0, r.prefixed, r.decl, r.local, {}, <<>>)
                     ELSE MkNode(shape[i], FALSE, FALSE, names[i], {}, <<>>)])

\* root and one child, each written with or without prefix and declaration,
\* with and without prolog and surrounding whitespace
NsDoc(d) ==
    \E r \in [local : {"svg", "script"}, prefixed : BOOLEAN, decl : BOOLEAN] :
    \E c \in [present : BOOLEAN, local : {"svg", "rect"}, prefixed : BOOLEAN,
              decl : BOOLEAN] :
    \E ws \in BOOLEAN, prolog \in BOOLEAN, defect \in Defects :
        d = MkDoc(ws, prolog, defect,
                  <<MkNode(0, r.prefixed, r.decl, r.local, {}, <<>>)>>
                  \o (IF c.present
                      THEN <<MkNode(1, c.prefixed, c.decl, c.local, {}, <<>>)>>
                      ELSE <<>>))

v_plain == <<"#","a">>
v_javascript == <<"J","a","v","a","S","c","r","i","p","t",":","x">>
v_data == <<"x"," ","d","a","t","a",":","x">>
v_vbscript == <<"v","b","s","c","r","i","p","t",":">>
AttrValues == {v_plain, v_javascript, v_data, v_vbscript}

AttrPool ==
    [ns : {NoNs}, name : {"onload", "onClick", "href", "viewBox", "width", "height"},
     value : AttrValues]
    \cup [ns : {OtherNs}, name : {"onload", "href"}, value : AttrValues]

\* attribute dictionaries with at most k entries (one value per key)
RECURSIVE AttrSets(_)
AttrSets(k) ==
    IF k = 0 THEN {{}}
    ELSE LET prev == AttrSets(k - 1)
         IN prev \cup UNION {
              {S \cup {a} :
                  a \in {b \in AttrPool :
                            \A x \in S : ~(x.ns = b.ns /\ x.name = b.name)}}
              : S \in prev}

\* <svg><rect/></svg> with up to MaxAttrs attributes on one of the elements
AttrDoc(d) ==
    \E attrs \in AttrSets(MaxAttrs) : \E target \in 1..2, prolog \in BOOLEAN :
        d = MkDoc(FALSE, prolog, "none",
                  <<MkNode(0, FALSE, FALSE, "svg",
                           IF target = 1 THEN attrs ELSE {}, <<>>),
                    MkNode(1, FALSE, FALSE, "rect",
                           IF target = 2 THEN attrs ELSE {}, <<>>)>>)

\* pieces of style text: "express", "ION(", ")", "u", "url(", "rl (" and
\* "javascript:)"
CssPieces ==
    { <<"e","x","p","r","e","s","s">>,
      <<"I","O","N","(">>,
      <<")">>,
      <<"u">>,
      <<"u","r","l","(">>,
      <<"r","l"," ","(">>,
      <<"j","a","v","a","s","c","r","i","p","t",":",")">> }

\* style texts made of at most k pieces
RECURSIVE CssTexts(_)
CssTexts(k) ==
    IF k = 0 THEN {<<>>}
    ELSE LET prev == CssTexts(k - 1)
         IN prev \cup {t \o q : t \in prev, q \in CssPieces}

\* <svg><style>text</style></svg>, with prolog
CssDoc(d) ==
    \E text \in CssTexts(MaxCssPieces) :
        d = MkDoc(FALSE, TRUE, "none",
                  <<MkNode(0, FALSE, FALSE, "svg", {}, <<>>),
                    MkNode(1, FALSE, FALSE, "style", {}, text)>>)

(***************************************************************************)
(* The calls.  A run hands one input to sanitize_svg and then hands the    *)
(* returned markup to sanitize_svg again, or hands the input to            *)
(* validate_svg_structure.                                                 *)
(***************************************************************************)
NotCalled ==
    /\ pc = "start"
    /\ res = NoCall
    /\ res2 = NoCall
    /\ val = NoValidation
    /\ args = Unused /\ fn = Unused /\ ret = Unused
    /\ batch_jobs = Unused /\ task = Unused
    /\ store = Unused /\ audit_log = Unused

Init ==
    /\ \/ input = BlankDoc
       \/ TreeDoc(input)
       \/ NsDoc(input)
       \/ AttrDoc(input)
    /\ NotCalled

\* the inputs of the style-text properties
InitCss ==
    /\ CssDoc(input)
    /\ NotCalled

Sanitize ==
    /\ pc = "start"
    /\ res' = sanitize_svg(input)
    /\ pc' = "sanitized"
    /\ UNCHANGED <<input, res2, val, args, fn, ret, batch_jobs, task,
                 store, audit_log>>

Resanitize ==
    /\ pc = "sanitized"
    /\ res.status = "ok"
    /\ res2' = sanitize_svg(res.doc)
    /\ pc' = "resanitized"
    /\ UNCHANGED <<input, res, val, args, fn, ret, batch_jobs, task,
                 store, audit_log>>

Validate ==
    /\ pc = "start"
    /\ val' = validate_svg_structure(input)
    /\ pc' = "validated"
    /\ UNCHANGED <<input, res, res2, args, fn, ret, batch_jobs, task,
                 store, audit_log>>

Next == Sanitize \/ Resanitize \/ Validate

Spec == Init /\ [][Next]_vars

SpecCss == InitCss /\ [][Next]_vars

(***************************************************************************)
(* Properties of sanitize_svg                                              *)
(***************************************************************************)
\* sanitize_svg has returned a document for the input
Sanitized == pc \in {"sanitized", "resanitized"} /\ res.status = "ok"

\* the tree sanitize_svg parsed from the input
ParsedInput == ET_fromstring(_normalize_namespaces(Strip(input))).tree

\* the children of the parsed input whose lower-cased name is not allowed
Dropped ==
    {i \in 2..Len(ParsedInput) :
        LowerName(ParsedInput[i].tag.local) \notin ALLOWED_ELEMENTS}

\* s contains w, letter case ignored
HasSubstrCI(s, w) ==
    \E i \in 0..(Len(s) - Len(w)) :
        \A k \in 1..Len(w) : Lower(s[i + k]) = Lower(w[k])

SchemeWords ==
    { <<"j","a","v","a","s","c","r","i","p","t",":">>,
      <<"d","a","t","a",":">>,
      <<"v","b","s","c","r","i","p","t",":">> }

HasScheme(s) == \E w \in SchemeWords : HasSubstrCI(s, w)

\* C1: whenever sanitize_svg succeeds, every element below the root of the
\* output has a lower-cased, namespace-stripped name in the allow-list, and
\* no element of the output is a non-allow-listed child of the input or one
\* of its former descendants.
C1_OnlyAllowedBelowRoot ==
    Sanitized =>
        \A k \in 1..Len(res.tree) :
            /\ k > 1 => /\ LowerName(res.tree[k].tag.local) \in ALLOWED_ELEMENTS
                        /\ LowerName(res.doc.nodes[k].local) \in ALLOWED_ELEMENTS
            /\ AncOrSelf(ParsedInput, res.tree[k].orig) \cap Dropped = {}

\* C1 witness: a non-allow-listed child with a descendant of an allowed name
\* was in the input, and the output is smaller than the input
C1_Witness ==
    /\ Sanitized
    /\ \E i \in Dropped : \E j \in 1..Len(ParsedInput) :
          /\ j # i /\ i \in AncOrSelf(ParsedInput, j)
          /\ LowerName(ParsedInput[j].tag.local) \in ALLOWED_ELEMENTS
    /\ Len(res.tree) < Len(ParsedInput)

\* C2: whenever sanitize_svg succeeds, no element of the output, the root
\* included, has an attribute whose lower-cased, namespace-stripped name is
\* in the event-handler deny-list.
C2_NoDeniedAttribute ==
    Sanitized =>
        \A k \in 1..Len(res.tree) :
            /\ \A a \in res.tree[k].attrib :
                  LowerName(a.name) \notin DANGEROUS_ATTRIBUTES
            /\ \A a \in res.doc.nodes[k].attrs :
                  LowerName(a.name) \notin DANGEROUS_ATTRIBUTES

\* C2 witness: a surviving element had a deny-listed attribute with a
\* harmless value, on the root and written in mixed case or with a prefix
C2_Witness ==
    /\ Sanitized
    /\ \E a \in ParsedInput[1].attrib :
          /\ LowerName(a.name) \in DANGEROUS_ATTRIBUTES
          /\ a.value = v_plain
          /\ (a.name = "onClick" \/ a.ns = OtherNs)

\* C3: whenever sanitize_svg succeeds, no attribute of a surviving element
\* has a value containing javascript:, data: or vbscript: in any letter
\* case, and every attribute of the output is an attribute of the same
\* element of the input with its value unchanged (nothing is rewritten).
C3_NoSchemeInValues ==
    Sanitized =>
        \A k \in 1..Len(res.tree) :
            \A a \in res.tree[k].attrib :
                /\ ~HasScheme(a.value)
                /\ a \in ParsedInput[res.tree[k].orig].attrib
                /\ a \in res.doc.nodes[k].attrs

\* C3 witness: a surviving element had an attribute of a harmless name
\* whose value holds a scheme in mixed case, and another attribute survived
C3_Witness ==
    /\ Sanitized
    /\ \E k \in 1..Len(res.tree) :
          /\ \E a \in ParsedInput[res.tree[k].orig].attrib :
                a.name = "href" /\ a.value = v_javascript
          /\ res.tree[k].attrib # {}

\* C4: after sanitization the text of each surviving style element contains
\* no substring "expression(", letter case ignored.
C4_NoExpressionInStyle ==
    Sanitized =>
        \A k \in 1..Len(res.tree) :
            LowerName(res.tree[k].tag.local) = "style" =>
                ~HasSubstrCI(res.tree[k].text, kw_expression \o <<"(">>)

\* a url(...) construct with a dangerous-scheme argument occurs in s
HasDangerousUrl(s) ==
    \E i \in 1..Len(s) :
        LET e == CallEnd(s, i, kw_url)
        IN e # 0 /\ HasScheme(SubSeq(s, OpenAfterWord(s, i, kw_url) + 1, e - 1))

\* C5: in style text a url(...) occurrence with a dangerous-scheme argument
\* is deleted and every other one is left untouched (a text without such an
\* occurrence passes the url step unchanged); consequently the sanitized
\* style text contains no url(...) construct with a dangerous-scheme
\* argument.
C5_NoDangerousUrlInStyle ==
    Sanitized =>
        \A k \in 1..Len(res.tree) :
            LowerName(res.tree[k].tag.local) = "style" =>
                LET before == SubExpression(ParsedInput[res.tree[k].orig].text, 1)
                IN /\ ~HasDangerousUrl(before) => res.tree[k].text = before
                   /\ ~HasDangerousUrl(res.tree[k].text)

\* C6: sanitization is idempotent: when sanitize_svg succeeds with output y,
\* sanitize_svg(y) succeeds too and returns a document identical to y.
C6_Idempotent ==
    pc = "resanitized" => res2.status = "ok" /\ res2.doc = res.doc

\* C7: whenever sanitize_svg succeeds, its output starts with the XML
\* declaration if and only if the trimmed input started with "<?xml".
C7_PrologRoundTrip ==
    Sanitized => (res.doc.prolog <=> (~input.blank /\ input.prolog))

\* C7 witness: an input with whitespace around it and a prolog was
\* sanitized, and so was its output, which has the declaration
C7_Witness ==
    /\ pc = "resanitized" /\ res.status = "ok" /\ res2.status = "ok"
    /\ input.ws /\ input.prolog /\ res.doc.prolog /\ res2.doc.prolog

\* C8: sanitize_svg raises SVGSanitizationError, and nothing else, when the
\* input is blank, when the trimmed input starts with neither "<svg" nor
\* "<?xml", and when the input is not well-formed markup.
C8_RejectsWithSanitizationError ==
    (/\ pc = "sanitized"
     /\ \/ input.blank
        \/ ~StartsWithSvg(Strip(input)) /\ ~StartsWithXml(Strip(input))
        \/ input.defect # "none")
    => res.status = "raise" /\ res.exc = "SVGSanitizationError"

(***************************************************************************)
(* Properties of validate_svg_structure                                    *)
(***************************************************************************)
\* the XML parser accepts the input as it is
InputParses ==
    ~input.blank /\ input.defect = "none" /\ ~(input.ws /\ input.prolog)

\* C9: validate_svg_structure never raises; for an input that does not
\* parse it returns valid=false, a non-empty error list, element_count=0,
\* has_viewbox=false and has_dimensions=false.
C9_ValidateNeverRaises ==
    pc = "validated" =>
        /\ val.status = "ok"
        /\ ~InputParses =>
              /\ ~val.valid /\ val.errors # <<>> /\ val.element_count = 0
              /\ ~val.has_viewbox /\ ~val.has_dimensions

\* C10: a returned validation has valid=true exactly when the input parses
\* and its root is svg (namespace-stripped, letter case ignored); another
\* root gives one error and no metadata; a valid document gives
\* has_viewbox = root has viewBox, has_dimensions = root has width and
\* height, element_count = number of elements with the root, and no errors.
C10_ValidateResult ==
    (pc = "validated" /\ val.status = "ok") =>
        LET rootsvg == InputParses /\ LowerName(input.nodes[1].local) = "svg"
            rootattr(n) == \E a \in input.nodes[1].attrs :
                              a.ns = NoNs /\ a.name = n
        IN /\ val.valid <=> rootsvg
           /\ (InputParses /\ ~rootsvg) =>
                 /\ Len(val.errors) = 1 /\ val.element_count = 0
                 /\ ~val.has_viewbox /\ ~val.has_dimensions
           /\ val.valid =>
                 /\ val.has_viewbox <=> rootattr("viewBox")
                 /\ val.has_dimensions <=> (rootattr("width") /\ rootattr("height"))
                 /\ val.element_count = Len(input.nodes)
                 /\ val.errors = <<>>

\* C10 witness: <svg><rect/></svg> was validated: valid, two elements, no
\* viewBox and no dimensions
C10_Witness ==
    /\ pc = "validated" /\ val.status = "ok" /\ val.valid
    /\ Len(input.nodes) = 2 /\ input.nodes[2].local = "rect"
    /\ input.nodes[1].attrs = {}
    /\ val.element_count = 2 /\ ~val.has_viewbox /\ ~val.has_dimensions

(***************************************************************************)
(* The query generator (container/app/rag/query_generator.py).             *)
(*                                                                         *)
(* A colour value is a sequence of characters, so that str.lower(),        *)
(* slicing and int(.., 16) are evaluated character by character.  Text     *)
(* that the functions build is a sequence of strings: a literal of the     *)
(* code, a table entry or a caller's free text is one element, and its     *)
(* concatenation in the code is the concatenation of the sequences.        *)
(***************************************************************************)
\* Python's None
None == "<None>"

\* str.lower() on a sequence of characters
LowerSeq(s) == [i \in 1..Len(s) |-> Lower(s[i])]

HexDigits == <<"0","1","2","3","4","5","6","7","8","9","a","b","c","d","e","f">>

IsHexDigit(c) == \E k \in 1..16 : HexDigits[k] = Lower(c)

HexVal(c) == (CHOOSE k \in 1..16 : HexDigits[k] = Lower(c)) - 1

\* int(s, 16) on a string of at most two characters: hexadecimal digits in
\* either letter case, after an optional sign and with surrounding
\* whitespace ignored; ok is false where int() raises ValueError
int16(s) ==
    LET num(v) == [ok |-> TRUE, v |-> v]
    IN CASE Len(s) = 2 /\ IsHexDigit(s[1]) /\ IsHexDigit(s[2]) ->
                num(16 * HexVal(s[1]) + HexVal(s[2]))
         [] Len(s) = 2 /\ s[1] \in {"+", " "} /\ IsHexDigit(s[2]) ->
                num(HexVal(s[2]))
         [] Len(s) = 2 /\ s[1] = "-" /\ IsHexDigit(s[2]) ->
                num(0 - HexVal(s[2]))
         [] Len(s) = 2 /\ IsHexDigit(s[1]) /\ s[2] = " " ->
                num(HexVal(s[1]))
         [] Len(s) = 1 /\ IsHexDigit(s[1]) ->
                num(HexVal(s[1]))
         [] OTHER -> [ok |-> FALSE, v |-> 0]

\* the slice s[i:j] of a string
Slice(s, i, j) ==
    IF i >= Len(s) \/ j <= i THEN <<>>
    ELSE SubSeq(s, i + 1, IF j < Len(s) THEN j ELSE Len(s))

\* str.strip() on built text: empty elements are no characters, and the
\* blanks at both ends are removed
StripText(t) ==
    LET full == SelectSeq(t, LAMBDA e : e # "")
        blank(e) == e = " "
        first == IF \E i \in 1..Len(full) : ~blank(full[i])
                 THEN CHOOSE i \in 1..Len(full) :
                          ~blank(full[i]) /\ \A j \in 1..(i-1) : blank(full[j])
                 ELSE Len(full) + 1
        last == IF \E i \in 1..Len(full) : ~blank(full[i])
                THEN CHOOSE i \in 1..Len(full) :
                         ~blank(full[i]) /\ \A j \in (i+1)..Len(full) : blank(full[j])
                ELSE 0
    IN SubSeq(full, first, last)

\* the brightness label of _hex_to_description; brightness is
\* (r*299 + g*587 + b*114) / 1000, compared here without the division
brightness_term_inclusive(r, g, b) ==
    LET brightness1000 == r * 299 + g * 587 + b * 114
    IN IF brightness1000 <= 85 * 1000 THEN "dark"
       ELSE IF brightness1000 >= 170 * 1000 THEN "light" ELSE ""

brightness_term(r, g, b) ==
    LET brightness1000 == r * 299 + g * 587 + b * 114
    IN IF brightness1000 < 85 * 1000 THEN "dark"
       ELSE IF brightness1000 > 170 * 1000 THEN "light" ELSE ""

\* the hue of _hex_to_description; x > y * 0.5 is 2x > y and x > y * 0.3 is
\* 10x > 3y for the integers a channel can hold
hue(r, g, b) ==
    IF r >= g /\ r >= b
    THEN IF g > b
         THEN (IF 2 * g > r THEN "orange" ELSE "red")
         ELSE (IF 10 * b > 3 * r THEN "pink" ELSE "red")
    ELSE IF g >= r /\ g >= b
    THEN IF r > b
         THEN (IF 2 * r > g THEN "yellow-green" ELSE "green")
         ELSE (IF 10 * b > 3 * g THEN "teal" ELSE "green")
    ELSE IF r > g
         THEN (IF 10 * r > 3 * b THEN "purple" ELSE "blue")
         ELSE (IF 10 * g > 3 * b THEN "cyan" ELSE "blue")

_hex_to_description(hex_color) ==
    LET rr == int16(Slice(hex_color, 1, 3))
        gg == int16(Slice(hex_color, 3, 5))
        bb == int16(Slice(hex_color, 5, 7))
        r == rr.v
        g == gg.v
        b == bb.v
        term == brightness_term(r, g, b)
        max_val == IF r >= g /\ r >= b THEN r ELSE IF g >= b THEN g ELSE b
    IN IF ~rr.ok \/ ~gg.ok \/ ~bb.ok THEN hex_color
       ELSE IF max_val = 0 THEN <<"black">>
       ELSE IF r = g /\ g = b
       THEN (IF term # "" THEN StripText(<<term, " ", "gray">>) ELSE <<"gray">>)
       ELSE StripText(<<term, " ", hue(r, g, b)>>)

\* the table color_names of _describe_color
color_names ==
    { <<<<"#","0","0","0","0","0","0">>, "black">>,
      <<<<"#","f","f","f","f","f","f">>, "white">>,
      <<<<"#","f","f","0","0","0","0">>, "red">>,
      <<<<"#","0","0","f","f","0","0">>, "green">>,
      <<<<"#","0","0","0","0","f","f">>, "blue">>,
      <<<<"#","f","f","f","f","0","0">>, "yellow">>,
      <<<<"#","f","f","0","0","f","f">>, "magenta">>,
      <<<<"#","0","0","f","f","f","f">>, "cyan">>,
      <<<<"#","0","f","1","7","2","a">>, "dark navy">>,
      <<<<"#","3","b","8","2","f","6">>, "bright blue">>,
      <<<<"#","1","0","b","9","8","1">>, "emerald green">>,
      <<<<"#","f","5","9","e","0","b">>, "amber orange">>,
      <<<<"#","e","f","4","4","4","4">>, "red">>,
      <<<<"#","8","b","5","c","f","6">>, "purple">>,
      <<<<"#","e","c","4","8","9","9">>, "pink">>,
      <<<<"#","6","b","7","2","8","0">>, "gray">> }

_describe_color_exactcase(color) ==
    IF \E e \in color_names : e[1] = color
    THEN <<(CHOOSE e \in color_names : e[1] = color)[2]>>
    ELSE IF Len(color) = 7 /\ color[1] = "#"
    THEN _hex_to_description(color)
    ELSE color

_describe_color(color) ==
    LET color_lower == LowerSeq(color)
    IN IF \E e \in color_names : e[1] = color_lower
       THEN <<(CHOOSE e \in color_names : e[1] = color_lower)[2]>>
       ELSE IF Len(color) = 7 /\ color[1] = "#"
       THEN _hex_to_description(color)
       ELSE color

THEME_DESCRIPTIONS ==
    [ modern |-> "clean, contemporary, sleek design with geometric precision",
      minimal |-> "simple, understated, using negative space and clean lines",
      bold |-> "strong, impactful, high contrast with commanding presence",
      elegant |-> "sophisticated, refined, graceful with premium feel",
      playful |-> "fun, energetic, vibrant with friendly personality",
      tech |-> "digital, futuristic, innovative with technical aesthetic",
      vintage |-> "retro, classic, nostalgic with timeless appeal",
      organic |-> "natural, flowing, earthy with organic curves" ]

TYPE_DESCRIPTIONS ==
    [ wordmark |-> "text-based logo featuring the brand name in stylized typography",
      lettermark |-> "monogram or initials-based logo using abbreviated letters",
      pictorial |-> "icon or symbol-based logo representing the brand visually",
      abstract |-> "geometric or abstract shape logo with symbolic meaning",
      mascot |-> "character or mascot-based logo with personality",
      combination |-> "combined text and symbol logo with integrated elements",
      emblem |-> "badge or seal-style logo with enclosed design" ]

SHAPE_DESCRIPTIONS ==
    [ circle |-> "circular, rounded, enclosed in a perfect circle",
      hexagon |-> "hexagonal, six-sided geometric shape",
      triangle |-> "triangular, three-pointed geometric form",
      diamond |-> "diamond-shaped, rotated square form",
      star |-> "star-shaped, pointed radiating design",
      shield |-> "shield-shaped, protective badge form" ]

\* the truth value of an optional string: None and "" are false
Truthy(x) == x # None /\ x # ""

\* the phrase of a facet that has a description table (type, theme, shape)
facet_phrase(value, descriptions, suffix) ==
    IF Truthy(value) /\ value \in DOMAIN descriptions
    THEN <<(<<descriptions[value]>>)>>
    ELSE IF Truthy(value) THEN <<(<<value, suffix>>)>> ELSE <<>>

\* sep.join(texts)
Join(texts, sep) ==
    LET RECURSIVE J(_)
        J(k) == IF k = 0 THEN <<>>
                ELSE IF k = 1 THEN texts[1]
                ELSE J(k - 1) \o <<sep>> \o texts[k]
    IN J(Len(texts))

\* the colour phrase; an unset colour (None or "") is the empty sequence
color_phrase(primary_color, accent_color) ==
    LET colors == (IF primary_color # <<>>
                   THEN <<(<<"primary color ">> \o _describe_color(primary_color))>>
                   ELSE <<>>)
                  \o (IF accent_color # <<>>
                      THEN <<(<<"accent color ">> \o _describe_color(accent_color))>>
                      ELSE <<>>)
    IN IF colors # <<>> THEN <<Join(colors, ", ")>> ELSE <<>>

text_phrase_always(text, logo_type) ==
    IF Truthy(text) THEN <<(<<"featuring text '", text, "'">>)>> ELSE <<>>

text_phrase(text, logo_type) ==
    IF Truthy(text) /\ logo_type \in {"wordmark", "lettermark", "combination"}
    THEN <<(<<"featuring text '", text, "'">>)>>
    ELSE <<>>

\* the list parts of config_to_query when it is joined
query_parts(a) ==
    (IF Truthy(a.description) THEN <<(<<a.description>>)>> ELSE <<>>)
    \o facet_phrase(a.logo_type, TYPE_DESCRIPTIONS, " style logo")
    \o facet_phrase(a.theme, THEME_DESCRIPTIONS, " aesthetic")
    \o facet_phrase(a.shape, SHAPE_DESCRIPTIONS, " shape")
    \o color_phrase(a.primary_color, a.accent_color)
    \o text_phrase(a.text, a.logo_type)
    \o (IF Truthy(a.industry)
        THEN <<(<<"suitable for ", a.industry, " industry">>)>> ELSE <<>>)

join_parts_with(parts) ==
    IF parts = <<>> THEN <<"professional logo design">>
    ELSE Join(parts, " with ")

\* the return statements of config_to_query
join_parts(parts) ==
    IF parts = <<>> THEN <<"professional logo design">>
    ELSE Join(SubSeq(parts, 1, IF Len(parts) < 3 THEN Len(parts) ELSE 3), " with ")
         \o (IF Len(parts) > 3
             THEN <<". ">> \o Join(SubSeq(parts, 4, Len(parts)), ". ")
             ELSE <<>>)

config_to_query(a) == join_parts(query_parts(a))

\* a filter of the store: no filter, one equality condition, a conjunction
NoFilter == [kind |-> "None"]

Eq(field, value) ==
    [kind |-> "condition", field |-> field, op |-> "$eq", value |-> value]

And(conditions) == [kind |-> "$and", conditions |-> conditions]

generate_filter_from_config_alwaysand(logo_type, theme, shape) ==
    LET conditions ==
            (IF Truthy(logo_type) THEN <<Eq("logo_type", logo_type)>> ELSE <<>>)
            \o (IF Truthy(theme) THEN <<Eq("theme", theme)>> ELSE <<>>)
            \o (IF Truthy(shape) THEN <<Eq("shape", shape)>> ELSE <<>>)
    IN IF conditions = <<>> THEN NoFilter ELSE And(conditions)

generate_filter_from_config(logo_type, theme, shape) ==
    LET conditions ==
            (IF Truthy(logo_type) THEN <<Eq("logo_type", logo_type)>> ELSE <<>>)
            \o (IF Truthy(theme) THEN <<Eq("theme", theme)>> ELSE <<>>)
            \o (IF Truthy(shape) THEN <<Eq("shape", shape)>> ELSE <<>>)
    IN IF conditions = <<>> THEN NoFilter
       ELSE IF Len(conditions) = 1 THEN conditions[1]
       ELSE And(conditions)

(***************************************************************************)
(* The calls of the query generator.  A run hands one colour value to      *)
(* _describe_color or to _hex_to_description (SpecColor), or one set of    *)
(* facets to config_to_query or to generate_filter_from_config (SpecGen).  *)
(***************************************************************************)
SanitizerUnused ==
    /\ input = Unused /\ pc = Unused
    /\ res = Unused /\ res2 = Unused /\ val = Unused

BatchUnused == batch_jobs = Unused /\ task = Unused

StoreUnused == store = Unused /\ audit_log = Unused

\* no function has been called
NoCallYet == "<none>"

UpperSeq(s) ==
    [i \in 1..Len(s) |->
        IF \E k \in 1..26 : LowerLetters[k] = s[i]
        THEN UpperLetters[CHOOSE k \in 1..26 : LowerLetters[k] = s[i]]
        ELSE s[i]]

\* the colour values of the explored calls: the table keys in lower and in
\* upper case, "#" with three channels of two characters each, and values
\* of another form
InitColor ==
    LET ChannelPool ==
            { <<"0","0">>, <<"4","c">>, <<"4","d">>, <<"5","4">>, <<"5","5">>,
              <<"7","f">>, <<"8","0">>, <<"9","9">>, <<"a","a">>, <<"a","b">>,
              <<"f","f">>, <<"F","F">>, <<"A","b">>, <<"+","f">>, <<"-","f">>,
              <<"g","0">> }
    IN
    /\ \/ \E e \in color_names : args = e[1] \/ args = UpperSeq(e[1])
       \/ \E p1 \in ChannelPool : \E p2 \in ChannelPool : \E p3 \in ChannelPool :
             args = <<"#">> \o p1 \o p2 \o p3
       \/ args \in { <<"n","o","t","-","a","-","c","o","l","o","r">>,
                     <<"R","e","d">>,
                     <<"#","f","f","f">>,
                     <<"#","f","f","9","9","0","0","0">>,
                     <<"f","f","9","9","0","0","#">> }
    /\ fn = NoCallYet /\ ret = NoCallYet
    /\ SanitizerUnused /\ BatchUnused /\ StoreUnused

DescribeColor ==
    /\ fn = NoCallYet
    /\ fn' = "_describe_color"
    /\ ret' = _describe_color(args)
    /\ UNCHANGED <<input, pc, res, res2, val, args, batch_jobs, task,
                 store, audit_log>>

HexToDescription ==
    /\ fn = NoCallYet
    /\ fn' = "_hex_to_description"
    /\ ret' = _hex_to_description(args)
    /\ UNCHANGED <<input, pc, res, res2, val, args, batch_jobs, task,
                 store, audit_log>>

NextColor == DescribeColor \/ HexToDescription

SpecColor == InitColor /\ [][NextColor]_vars

\* the facets of the explored calls
InitGen ==
    /\ \E logo_type \in {None, "", "wordmark", "mascot", "monogram"} :
       \E theme \in {None, "modern", "grunge"} :
       \E shape \in {None, "circle", "blob"} :
       \E primary_color \in {<<>>, <<"#","0","F","1","7","2","A">>,
                             <<"#","f","f","9","9","0","0">>,
                             <<"t","e","a","l">>} :
       \E accent_color \in {<<>>, <<"#","g","g","g","g","g","g">>,
                            <<"#","5","4","5","4","5","4">>} :
       \E text \in {None, "", "ACME"} :
       \E description \in {None, "a fox"} :
       \E industry \in {None, "coffee"} :
          args = [logo_type |-> logo_type, theme |-> theme, shape |-> shape,
                  primary_color |-> primary_color,
                  accent_color |-> accent_color,
                  text |-> text, description |-> description,
                  industry |-> industry]
    /\ fn = NoCallYet /\ ret = NoCallYet
    /\ SanitizerUnused /\ BatchUnused /\ StoreUnused

ConfigToQuery ==
    /\ fn = NoCallYet
    /\ fn' = "config_to_query"
    /\ ret' = [parts |-> query_parts(args), query |-> config_to_query(args)]
    /\ UNCHANGED <<input, pc, res, res2, val, args, batch_jobs, task,
                 store, audit_log>>

GenerateFilter ==
    /\ fn = NoCallYet
    /\ fn' = "generate_filter_from_config"
    /\ ret' = generate_filter_from_config(args.logo_type, args.theme, args.shape)
    /\ UNCHANGED <<input, pc, res, res2, val, args, batch_jobs, task,
                 store, audit_log>>

NextGen == ConfigToQuery \/ GenerateFilter

SpecGen == InitGen /\ [][NextGen]_vars

(***************************************************************************)
(* Properties of the query generator                                       *)
(***************************************************************************)
\* C15: config_to_query builds its phrase list in the fixed order
\* description (verbatim), logo type, theme, shape (the table description
\* when the value is in the table, else the value followed by " style
\* logo", " aesthetic", " shape"), one colour phrase that joins "primary
\* color <d>" and "accent color <d>" with ", ", "featuring text '<text>'"
\* only when text is set and logo_type is wordmark, lettermark or
\* combination, and "suitable for <industry> industry"; an unset or empty
\* facet contributes no phrase, and unknown values give a phrase too.
C15_PhraseOrder ==
    fn = "config_to_query" =>
        LET a == args
            isset(x) == x # None /\ x # ""
            one(cond, phrase) == IF cond THEN <<phrase>> ELSE <<>>
            tabled(v, table, suffix) ==
                IF ~isset(v) THEN <<>>
                ELSE IF v \in DOMAIN table THEN <<(<<table[v]>>)>>
                ELSE <<(<<v, suffix>>)>>
            cols == one(a.primary_color # <<>>,
                        <<"primary color ">> \o _describe_color(a.primary_color))
                    \o one(a.accent_color # <<>>,
                           <<"accent color ">> \o _describe_color(a.accent_color))
            colour == IF Len(cols) = 2 THEN <<(cols[1] \o <<", ">> \o cols[2])>>
                      ELSE cols
        IN ret.parts =
              one(isset(a.description), <<a.description>>)
              \o tabled(a.logo_type, TYPE_DESCRIPTIONS, " style logo")
              \o tabled(a.theme, THEME_DESCRIPTIONS, " aesthetic")
              \o tabled(a.shape, SHAPE_DESCRIPTIONS, " shape")
              \o colour
              \o one(isset(a.text) /\ a.logo_type \in {"wordmark", "lettermark",
                                                      "combination"},
                     <<"featuring text '", a.text, "'">>)
              \o one(isset(a.industry),
                     <<"suitable for ", a.industry, " industry">>)

\* C15 witness: a call with every facet set, an unknown theme and shape, and
\* two colours gave seven phrases, the sixth being the text phrase
C15_Witness ==
    /\ fn = "config_to_query"
    /\ args.logo_type = "wordmark" /\ args.theme = "grunge" /\ args.shape = "blob"
    /\ args.primary_color # <<>> /\ args.accent_color # <<>>
    /\ Len(ret.parts) = 7
    /\ ret.parts[3] = <<"grunge", " aesthetic">>
    /\ ret.parts[6] = <<"featuring text '", "ACME", "'">>

\* C16: config_to_query returns exactly "professional logo design" when the
\* phrase list is empty (in particular when every facet is unset or empty);
\* otherwise it returns the phrases in order, each once, with " with "
\* before the second and the third phrase and ". " before every later one.
C16_Join ==
    fn = "config_to_query" =>
        LET p == ret.parts
            sep(k) == IF k <= 3 THEN " with " ELSE ". "
            RECURSIVE Expected(_)
            Expected(k) == IF k = 0 THEN <<>>
                           ELSE IF k = 1 THEN p[1]
                           ELSE Expected(k - 1) \o <<sep(k)>> \o p[k]
            unset(x) == x = None \/ x = ""
        IN /\ p = <<>> => ret.query = <<"professional logo design">>
           /\ p # <<>> => ret.query = Expected(Len(p))
           /\ (/\ unset(args.description) /\ unset(args.logo_type)
               /\ unset(args.theme) /\ unset(args.shape) /\ unset(args.text)
               /\ unset(args.industry)
               /\ args.primary_color = <<>> /\ args.accent_color = <<>>)
              => ret.query = <<"professional logo design">>

\* C16 witness: a call with five phrases returned a text with two " with "
\* and two ". " separators
C16_Witness ==
    /\ fn = "config_to_query"
    /\ Len(ret.parts) = 5
    /\ Len(SelectSeq(ret.query, LAMBDA e : e = " with ")) = 2
    /\ Len(SelectSeq(ret.query, LAMBDA e : e = ". ")) = 2

\* C17: generate_filter_from_config returns no filter when none of
\* logo_type, theme, shape is set, the equality condition of the field when
\* exactly one is set, and otherwise a $and of one equality condition per
\* set field in the order logo_type, theme, shape; nothing else occurs in a
\* filter.
C17_Filter ==
    fn = "generate_filter_from_config" =>
        LET fields == <<"logo_type", "theme", "shape">>
            isset(k) == args[fields[k]] # None /\ args[fields[k]] # ""
            setf == {k \in 1..3 : isset(k)}
            n == Cardinality(setf)
            nth(i) == CHOOSE k \in setf : Cardinality({j \in setf : j < k}) = i - 1
            equality(c, k) ==
                c = [kind |-> "condition", field |-> fields[k], op |-> "$eq",
                     value |-> args[fields[k]]]
        IN /\ n = 0 => ret = [kind |-> "None"]
           /\ n = 1 => equality(ret, nth(1))
           /\ n > 1 => /\ ret.kind = "$and"
                       /\ DOMAIN ret = {"kind", "conditions"}
                       /\ Len(ret.conditions) = n
                       /\ \A i \in 1..n : equality(ret.conditions[i], nth(i))

\* C17 witness: logo_type and shape were set and theme was not: a
\* conjunction of two conditions
C17_Witness ==
    /\ fn = "generate_filter_from_config"
    /\ args.logo_type = "mascot" /\ args.theme = None /\ args.shape = "blob"
    /\ ret.kind = "$and" /\ Len(ret.conditions) = 2
    /\ ret.conditions[2].field = "shape"

\* the value is "#" followed by six hexadecimal digits
IsHexColor(c) ==
    Len(c) = 7 /\ c[1] = "#" /\ \A i \in 2..7 : IsHexDigit(c[i])

\* the channel of a hexadecimal colour that starts at character i
Channel(c, i) == 16 * HexVal(c[i]) + HexVal(c[i + 1])

\* C18: _describe_color returns the table name of a value that matches a
\* table entry case-insensitively ("#0F172A" and "#0f172a" give "dark
\* navy"); otherwise the result of the hex heuristic for a 7-character value
\* that starts with #, which is the value itself when a channel does not
\* decode; otherwise the value itself ("not-a-color"); it always returns,
\* and for a valid hex value the result is the same in lower and upper case.
C18_DescribeColor ==
    fn = "_describe_color" =>
        LET low == LowerSeq(args)
            hit == \E e \in color_names : e[1] = low
            hexform == Len(args) = 7 /\ args[1] = "#"
            decodes == \A i \in {2, 4, 6} : int16(SubSeq(args, i, i + 1)).ok
        IN /\ ret # NoCallYet
           /\ hit => \E e \in color_names : e[1] = low /\ ret = <<e[2]>>
           /\ (~hit /\ hexform) => /\ ret = _hex_to_description(args)
                                   /\ ~decodes => ret = args
           /\ (~hit /\ ~hexform) => ret = args
           /\ IsHexColor(args) => /\ ret = _describe_color(LowerSeq(args))
                                  /\ ret = _describe_color(UpperSeq(args))
           /\ low = <<"#","0","f","1","7","2","a">> => ret = <<"dark navy">>
           /\ args = <<"n","o","t","-","a","-","c","o","l","o","r">> => ret = args

\* C18 witness: "#0F172A" was described as "dark navy"
C18_Witness ==
    /\ fn = "_describe_color"
    /\ args = <<"#","0","F","1","7","2","A">>
    /\ ret = <<"dark navy">>

\* C19: for a decodable #RRGGBB value _hex_to_description labels the
\* brightness 0.299r + 0.587g + 0.114b dark below 85, light above 170 and
\* not at all from 85 to 170; all-zero channels give "black", all-equal
\* channels the label and "gray"; otherwise the hue is one of the three of
\* the largest channel (red: orange, red, pink; green: yellow-green, green,
\* teal; blue: purple, blue, cyan), chosen with the ratios 0.5 and 0.3; the
\* result is the label, a blank and the hue, or the hue alone, never empty
\* and never with a blank at an end; "#ff9900" gives "orange".
C19_HexToDescription ==
    (fn = "_hex_to_description" /\ IsHexColor(args)) =>
        LET r == Channel(args, 2)
            g == Channel(args, 4)
            b == Channel(args, 6)
            b1000 == 299 * r + 587 * g + 114 * b
            label == IF b1000 < 85000 THEN "dark"
                     ELSE IF b1000 > 170000 THEN "light" ELSE ""
            named(h) == IF label = "" THEN <<h>> ELSE <<label, " ", h>>
            top == IF r >= g /\ r >= b THEN r ELSE IF g >= b THEN g ELSE b
            hues == (IF r = top THEN {"orange", "red", "pink"} ELSE {})
                    \cup (IF g = top THEN {"yellow-green", "green", "teal"} ELSE {})
                    \cup (IF b = top THEN {"purple", "blue", "cyan"} ELSE {})
        IN /\ (r = 0 /\ g = 0 /\ b = 0) => ret = <<"black">>
           /\ (r = g /\ g = b /\ r # 0) => ret = named("gray")
           /\ ~(r = g /\ g = b) => \E h \in hues : ret = named(h)
           /\ (r > g /\ g > b) => (ret = named("orange") <=> 2 * g > r)
           /\ (r > b /\ b >= g) => (ret = named("pink") <=> 10 * b > 3 * r)
           /\ (g > r /\ r > b) => (ret = named("yellow-green") <=> 2 * r > g)
           /\ (g > b /\ b >= r) => (ret = named("teal") <=> 10 * b > 3 * g)
           /\ (b > r /\ r > g) => (ret = named("purple") <=> 10 * r > 3 * b)
           /\ (b > g /\ g >= r) => (ret = named("cyan") <=> 10 * g > 3 * b)
           /\ ret # <<>>
           /\ \A i \in 1..Len(ret) : ret[i] # ""
           /\ ret[1] # " " /\ ret[Len(ret)] # " "
           /\ LowerSeq(args) = <<"#","f","f","9","9","0","0">> => ret = <<"orange">>

\* C19 witness: "#555555", of brightness exactly 85, was described as "gray"
C19_Witness ==
    /\ fn = "_hex_to_description"
    /\ args = <<"#","5","5","5","5","5","5">>
    /\ ret = <<"gray">>

(***************************************************************************)
(* The similarity query (container/app/rag/query_service.py and            *)
(* chroma_client.py).                                                      *)
(*                                                                         *)
(* A float is a fraction n/d in lowest terms whose denominator is a power  *)
(* of two.  The arithmetic of the code is IEEE arithmetic, every result    *)
(* rounded to the nearest float, ties to the even significand; the model   *)
(* keeps MantissaBits bits of significand where the code keeps 53.         *)
(***************************************************************************)
MantissaBits == 3
MaxHits == 2

Pow2(k) ==
    LET RECURSIVE P(_)
        P(i) == IF i = 0 THEN 1 ELSE 2 * P(i - 1)
    IN P(k)

\* the fraction n/d in lowest terms, d a power of two
Float(n, d) ==
    LET RECURSIVE R(_, _)
        R(a, b) == IF b > 1 /\ a % 2 = 0 THEN R(a \div 2, b \div 2)
                   ELSE [n |-> a, d |-> b]
    IN R(n, d)

\* the float nearest to a/b, for integers a >= 0 and b > 0
RoundFloat(a, b) ==
    IF a = 0 THEN Float(0, 1)
    ELSE
    LET e == CHOOSE x \in -16..16 :
                 IF x >= 0
                 THEN Pow2(x) * b <= a /\ a < Pow2(x + 1) * b
                 ELSE b <= Pow2(-x) * a /\ Pow2(-x - 1) * a < b
        k == e - MantissaBits + 1
        num == IF k >= 0 THEN a ELSE a * Pow2(-k)
        den == IF k >= 0 THEN b * Pow2(k) ELSE b
        q == num \div den
        r == num % den
        m == IF 2 * r > den \/ (2 * r = den /\ q % 2 = 1) THEN q + 1 ELSE q
    IN IF k >= 0 THEN Float(m * Pow2(k), 1) ELSE Float(m, Pow2(-k))

\* x + y and x / y on floats (y # 0)
float_add(x, y) == RoundFloat(x.n * y.d + y.n * x.d, x.d * y.d)

float_div(x, y) == RoundFloat(x.n * y.d, x.d * y.n)

\* the sum 2 + distance in the place of 1 + distance
score_denominator_two(distance) == float_add(Float(2, 1), distance)

\* the sum 1 + distance of the score
score_denominator(distance) == float_add(Float(1, 1), distance)

\* an optional value that is set, and None
Some(v) == [some |-> TRUE, v |-> v]

Nothing == [some |-> FALSE]

\* ChromaLogoClient.query_by_text against a store that behaves as st says:
\* the store client cannot be built, the query fails, or the query returns
\* hits.  calls are the queries that reached the store.
query_by_text(st, query_text, n_results, where) ==
    LET call == [text |-> query_text, n_results |-> n_results, where |-> where]
        distance(i) == IF st.distances THEN st.hits[i].distance ELSE Float(0, 1)
        bad(i) == \/ ~st.metadatas \/ ~st.hits[i].metadata_ok
                  \/ score_denominator(distance(i)).n = 0
        logo(i) == [id |-> st.hits[i].id,
                    score |-> float_div(Float(1, 1), score_denominator(distance(i)))]
    IN IF st.fault = "connect"
       THEN [raised |-> TRUE, message |-> st.message, built |-> FALSE,
             calls |-> <<>>, logos |-> <<>>]
       ELSE IF st.fault = "query"
       THEN [raised |-> TRUE, message |-> st.message, built |-> TRUE,
             calls |-> <<call>>, logos |-> <<>>]
       ELSE IF \E i \in 1..Len(st.hits) : bad(i)
       THEN LET i == CHOOSE j \in 1..Len(st.hits) :
                         bad(j) /\ \A h \in 1..(j - 1) : ~bad(h)
            IN [raised |-> TRUE,
                message |-> IF score_denominator(distance(i)).n = 0
                            THEN "division by zero"
                            ELSE "validation error for LogoMetadata",
                built |-> TRUE, calls |-> <<call>>, logos |-> <<>>]
       ELSE [raised |-> FALSE, message |-> "", built |-> TRUE,
             calls |-> <<call>>,
             logos |-> [i \in 1..Len(st.hits) |-> logo(i)]]

is_rag_configured_tokenonly(env) == env.api_token # ""

is_rag_configured(env) ==
    env.api_token # "" /\ env.tenant # "" /\ env.database # ""

\* the query text always synthesized from the facets
query_text_synthesized(request) ==
    config_to_query([logo_type |-> request.logo_type,
                     theme |-> request.theme,
                     shape |-> request.shape,
                     primary_color |-> request.primary_color,
                     accent_color |-> request.accent_color,
                     text |-> request.text,
                     description |-> None, industry |-> None])

\* the query text of find_similar_logos
query_text_of(request) ==
    IF Truthy(request.query) THEN <<request.query>>
    ELSE config_to_query([logo_type |-> request.logo_type,
                          theme |-> request.theme,
                          shape |-> request.shape,
                          primary_color |-> request.primary_color,
                          accent_color |-> request.accent_color,
                          text |-> request.text,
                          description |-> None, industry |-> None])

\* the exception q of the try block leaves find_similar_logos
on_exception_propagates(q) ==
    [status |-> "raise", resp |-> Nothing, built |-> q.built, calls |-> q.calls]

\* the handler of find_similar_logos for the exception q of the try block
on_exception(q) ==
    [status |-> "return",
     resp |-> [success |-> TRUE, results |-> <<>>, query_used |-> Nothing,
               degraded |-> TRUE,
               error |-> Some(<<"RAG query failed: ", q.message>>)],
     built |-> q.built, calls |-> q.calls]

\* find_similar_logos: the response, whether a store client was built, and
\* the queries that reached the store
find_similar_logos(env, request, st) ==
    IF ~is_rag_configured(env)
    THEN [status |-> "return",
          resp |-> [success |-> TRUE, results |-> <<>>, query_used |-> Nothing,
                    degraded |-> TRUE,
                    error |-> Some(<<"RAG not configured - ChromaDB credentials missing">>)],
          built |-> FALSE, calls |-> <<>>]
    ELSE
    LET query_text == query_text_of(request)
        where_filter == generate_filter_from_config(request.logo_type,
                                                    request.theme, request.shape)
        q == query_by_text(st, query_text, request.n_results, where_filter)
    IN IF q.raised
       THEN on_exception(q)
       ELSE [status |-> "return",
             resp |-> [success |-> TRUE, results |-> q.logos,
                       query_used |-> Some(query_text), degraded |-> FALSE,
                       error |-> Nothing],
             built |-> q.built, calls |-> q.calls]

(***************************************************************************)
(* The calls of the similarity query (SpecQuery): one request against one  *)
(* environment and one behaviour of the store.                             *)
(***************************************************************************)
\* the explored calls: any credentials with a plain request; a configured
\* store with any request and a store that answers, fails or returns a hit
\* that cannot be converted; a configured store that answers a plain
\* request with hits at distance 0 and at floats of three magnitudes
InitQuery ==
    LET ConfiguredEnv ==
            [api_token |-> "token", tenant |-> "tenant", database |-> "db"]
        PlainRequest ==
            [query |-> None, logo_type |-> "wordmark", theme |-> None,
             shape |-> None, primary_color |-> <<>>, accent_color |-> <<>>,
             text |-> None, n_results |-> 5]
        Distances ==
            {Float(0, 1)}
            \cup { Float(m, Pow2(x)) :
                     m \in Pow2(MantissaBits - 1)..(Pow2(MantissaBits) - 1),
                     x \in {0, MantissaBits - 1, MantissaBits + 2} }
        Hit(id, distance, metadata_ok) ==
            [id |-> id, distance |-> distance, metadata_ok |-> metadata_ok]
        Store(fault, message, hits, distances, metadatas) ==
            [fault |-> fault, message |-> message, hits |-> hits,
             distances |-> distances, metadatas |-> metadatas]
    IN
    /\ \/ \E t \in {"", "token"} : \E n \in {"", "tenant"} : \E d \in {"", "db"} :
          \E f \in {"none", "connect", "query"} :
             args = [env |-> [api_token |-> t, tenant |-> n, database |-> d],
                     request |-> PlainRequest,
                     store |-> Store(f, "store unavailable",
                                     <<Hit("a", Float(1, 1), TRUE)>>, TRUE, TRUE)]
       \/ \E query \in {None, "", "red fox logo"} :
          \E logo_type \in {None, "wordmark", "monogram"} :
          \E theme \in {None, "modern"} :
          \E shape \in {None, "", "blob"} :
          \E primary_color \in {<<>>, <<"#","f","f","9","9","0","0">>} :
          \E text \in {None, "ACME"} :
          \E n_results \in {5, 1, 0} :
          \E f \in {"none", "connect", "query"} :
          \E ok \in BOOLEAN :
             args = [env |-> ConfiguredEnv,
                     request |-> [query |-> query, logo_type |-> logo_type,
                                  theme |-> theme, shape |-> shape,
                                  primary_color |-> primary_color,
                                  accent_color |-> <<>>, text |-> text,
                                  n_results |-> n_results],
                     store |-> Store(f, "quota exceeded",
                                     <<Hit("a", Float(1, 2), ok)>>, TRUE, TRUE)]
       \/ \E n \in 0..MaxHits : \E ds \in [1..n -> Distances] :
          \E ids \in {<<"a", "b", "c", "d">>, <<"d", "c", "b", "a">>} :
             args = [env |-> ConfiguredEnv, request |-> PlainRequest,
                     store |-> Store("none", "",
                                     [i \in 1..n |-> Hit(ids[i], ds[i], TRUE)],
                                     TRUE, TRUE)]
       \/ \E distances \in BOOLEAN : \E metadatas \in BOOLEAN :
          \E d \in {Float(0, 1), Float(1, 1), Float(-1, 1)} :
             args = [env |-> ConfiguredEnv, request |-> PlainRequest,
                     store |-> Store("none", "", <<Hit("a", d, TRUE)>>,
                                     distances, metadatas)]
    /\ fn = NoCallYet /\ ret = NoCallYet
    /\ SanitizerUnused /\ BatchUnused /\ StoreUnused

FindSimilarLogos ==
    /\ fn = NoCallYet
    /\ fn' = "find_similar_logos"
    /\ ret' = find_similar_logos(args.env, args.request, args.store)
    /\ UNCHANGED <<input, pc, res, res2, val, args, batch_jobs, task,
                 store, audit_log>>

NextQuery == FindSimilarLogos

SpecQuery == InitQuery /\ [][NextQuery]_vars

(***************************************************************************)
(* Properties of the similarity query                                      *)
(***************************************************************************)
\* find_similar_logos was called and the call is over
Answered == fn = "find_similar_logos"

\* C11: find_similar_logos always returns a response, with success=true;
\* when building the store client or querying the store raises, the
\* response has degraded=true, no results and an error that contains the
\* message of the exception; a response that is not degraded has no error
\* and has query_used.
C11_NeverRaises ==
    Answered =>
        /\ ret.status = "return"
        /\ ret.resp.success
        /\ (is_rag_configured(args.env) /\ args.store.fault # "none") =>
              /\ ret.resp.degraded
              /\ ret.resp.results = <<>>
              /\ ret.resp.error.some
              /\ \E i \in 1..Len(ret.resp.error.v) :
                    ret.resp.error.v[i] = args.store.message
        /\ (/\ is_rag_configured(args.env)
            /\ \/ ~args.store.metadatas
               \/ \E i \in 1..Len(args.store.hits) : ~args.store.hits[i].metadata_ok)
           => ret.resp.degraded /\ ret.resp.results = <<>> /\ ret.resp.error.some
        /\ ~ret.resp.degraded =>
              ret.resp.error = Nothing /\ ret.resp.query_used.some

\* C11 witness: the query of a configured store raised and the response is
\* degraded with the message in its error
C11_Witness ==
    /\ Answered
    /\ is_rag_configured(args.env)
    /\ args.store.fault = "query"
    /\ ret.status = "return" /\ ret.resp.degraded
    /\ ret.resp.error = Some(<<"RAG query failed: ", "quota exceeded">>)

\* C12: when the api token, the tenant or the database is missing,
\* find_similar_logos returns success=true, degraded=true, no results and a
\* non-empty error, no store client is built and no query reaches the store.
C12_Unconfigured ==
    (Answered /\ \/ args.env.api_token = ""
                 \/ args.env.tenant = ""
                 \/ args.env.database = "")
    => /\ ret.status = "return"
       /\ ret.resp.success /\ ret.resp.degraded /\ ret.resp.results = <<>>
       /\ ret.resp.error.some /\ ret.resp.error.v # <<>>
       /\ \A i \in 1..Len(ret.resp.error.v) : ret.resp.error.v[i] # ""
       /\ ~ret.built /\ ret.calls = <<>>

\* C12 witness: only the tenant was missing, and the store would have
\* answered
C12_Witness ==
    /\ Answered
    /\ args.env.api_token # "" /\ args.env.tenant = "" /\ args.env.database # ""
    /\ args.store.fault = "none"
    /\ ret.resp.degraded /\ ~ret.built

\* C13: with a configured store that can be reached, exactly one query
\* goes to the store: its text is the caller's query verbatim when one is
\* supplied, else the text config_to_query makes of the request's facets;
\* its filter is the one generate_filter_from_config makes of logo_type,
\* theme and shape; its n_results is the request's; a response that is not
\* degraded reports the text as query_used.
C13_QuerySent ==
    (Answered /\ is_rag_configured(args.env) /\ args.store.fault # "connect") =>
        LET rq == args.request
            text == IF rq.query # None /\ rq.query # ""
                    THEN <<rq.query>>
                    ELSE config_to_query(
                           [logo_type |-> rq.logo_type, theme |-> rq.theme,
                            shape |-> rq.shape,
                            primary_color |-> rq.primary_color,
                            accent_color |-> rq.accent_color,
                            text |-> rq.text,
                            description |-> None, industry |-> None])
        IN /\ ret.calls =
                <<[text |-> text, n_results |-> rq.n_results,
                   where |-> generate_filter_from_config(rq.logo_type, rq.theme,
                                                         rq.shape)]>>
           /\ ~ret.resp.degraded => ret.resp.query_used = Some(text)

\* C13 witness: a request with a free-text query, a colour and a logo type
\* was answered: the query went out verbatim with a one-condition filter
C13_Witness ==
    /\ Answered /\ ~ret.resp.degraded
    /\ args.request.query = "red fox logo"
    /\ args.request.primary_color # <<>>
    /\ args.request.n_results = 1
    /\ ret.calls[1].text = <<"red fox logo">>
    /\ ret.calls[1].n_results = 1
    /\ ret.calls[1].where = Eq("logo_type", "wordmark")

\* x < y on floats
FloatLess(x, y) == x.n * y.d < y.n * x.d

\* the store answered with distances, all of them >= 0, and the response
\* is not degraded
Scored ==
    /\ Answered /\ ~ret.resp.degraded
    /\ args.store.fault = "none" /\ args.store.distances
    /\ \A i \in 1..Len(args.store.hits) : args.store.hits[i].distance.n >= 0

\* the result list has one entry per hit, in the store's order, with a
\* score in (0, 1] that is 1 at distance 0 and 1/2 at distance 1
ScoresInRange ==
    LET hits == args.store.hits
        results == ret.resp.results
    IN /\ Len(results) = Len(hits)
       /\ \A i \in 1..Len(hits) :
             /\ results[i].id = hits[i].id
             /\ hits[i].distance = Float(0, 1) => results[i].score = Float(1, 1)
             /\ hits[i].distance = Float(1, 1) => results[i].score = Float(1, 2)
             /\ results[i].score.n > 0
             /\ ~FloatLess(Float(1, 1), results[i].score)

\* C14 as stated: each distance d >= 0 becomes score = 1 / (1 + d), which is
\* 1 at d = 0, 1/2 at d = 1, in (0, 1] and strictly decreasing in d; the
\* result list keeps the store's order, one entry per returned id.
C14_StrictlyDecreasing ==
    Scored =>
        /\ ScoresInRange
        /\ \A i, j \in 1..Len(args.store.hits) :
              FloatLess(args.store.hits[i].distance, args.store.hits[j].distance)
              => FloatLess(ret.resp.results[j].score, ret.resp.results[i].score)

\* C14 amended: each distance d >= 0 becomes the float score = 1 / (1 + d),
\* which is 1 at d = 0, 1/2 at d = 1, in (0, 1], within two roundings of the
\* exact quotient, and non-increasing in d (a larger distance never has a
\* larger score, and may have the same); the result list keeps the store's
\* order, one entry per returned id.
C14_NonIncreasing ==
    Scored =>
        /\ ScoresInRange
        /\ \A i \in 1..Len(args.store.hits) :
              LET d == args.store.hits[i].distance
                  s == ret.resp.results[i].score
                  exact == s.n * (d.d + d.n) - s.d * d.d
                  err == IF exact < 0 THEN 0 - exact ELSE exact
              IN Pow2(MantissaBits) * err <= 2 * s.d * d.d
        /\ \A i, j \in 1..Len(args.store.hits) :
              FloatLess(args.store.hits[i].distance, args.store.hits[j].distance)
              => ~FloatLess(ret.resp.results[i].score, ret.resp.results[j].score)

\* C14 witness: two hits at distances 1 and 0, in this order, were scored
\* 1/2 and 1
C14_Witness ==
    /\ Scored
    /\ Len(args.store.hits) = 2
    /\ args.store.hits[1].distance = Float(1, 1)
    /\ args.store.hits[2].distance = Float(0, 1)
    /\ ret.resp.results[1] = [id |-> args.store.hits[1].id, score |-> Float(1, 2)]
    /\ ret.resp.results[2] = [id |-> args.store.hits[2].id, score |-> Float(1, 1)]

(***************************************************************************)
(* Ingestion of one logo (container/app/admin/ingestion.py) and the        *)
(* records of the store (container/app/rag/types.py).                      *)
(*                                                                         *)
(* Texts (descriptions, names, messages) are strings; "" is the empty      *)
(* text.  A call of ingest_single_logo is given its request and env, what  *)
(* its surroundings do during the call: the value of ANTHROPIC_API_KEY,    *)
(* what the description generator and the store's add answer (a value, or  *)
(* an exception with its message), the identifier uuid4 draws and the      *)
(* time.  Its result says whether it raised, the response it returned,     *)
(* the markup it handed to the description generator, the records it       *)
(* added to the store and the audit entries it logged.                     *)
(***************************************************************************)
MetadataFields ==
    {"logo_id", "name", "description", "logo_type", "theme", "shape",
     "primary_color", "accent_color", "text", "svg_url", "created_at"}

\* LogoMetadata(**given): an optional field that is not given is None
LogoMetadata(given) ==
    [k \in MetadataFields |-> IF k \in DOMAIN given THEN given[k] ELSE None]

\* model_dump(exclude_none=True): the fields that are not None
model_dump_exclude_none(m) == [k \in {f \in DOMAIN m : m[f] # None} |-> m[k]]

\* AuditEntry as log_audit writes it (the timestamp is left out)
AuditEntry(action, resource_id, details, success, error) ==
    [action |-> action, resource_id |-> resource_id, details |-> details,
     success |-> success, error |-> error]

\* audit_logo_ingested
audit_logo_ingested(logo_id, name, success, error) ==
    AuditEntry("logo_ingested", logo_id,
               IF Truthy(name) THEN <<name>> ELSE <<>>, success, error)

\* str(e) of the exception sanitize_svg raises for svg_content
sanitize_message(svg_content) ==
    IF svg_content.blank THEN "Empty SVG content"
    ELSE IF /\ ~StartsWithSvg(Strip(svg_content))
            /\ ~StartsWithXml(Strip(svg_content))
    THEN "Content does not appear to be SVG"
    ELSE IF ET_fromstring(_normalize_namespaces(Strip(svg_content))).exc
               = "ParseError"
    THEN "Failed to parse SVG: " \o "not well-formed (invalid token)"
    ELSE "'utf-8' codec can't encode character: surrogates not allowed"

LogoIngestionResponse(success, logo_id, description, error) ==
    [success |-> success, logo_id |-> logo_id, description |-> description,
     error |-> error]

\* a call that has done nothing yet
NoIngestion ==
    [raised |-> FALSE, message |-> None,
     response |-> LogoIngestionResponse(FALSE, None, None, None),
     described |-> <<>>, added |-> <<>>, audit |-> <<>>]

\* the markup of the raw request handed to the description generator
markup_for_describer_raw(request, sanitized_svg) == request.svg

\* line 128: the description generator is given the sanitized markup
markup_for_describer(request, sanitized_svg) == sanitized_svg

\* the exception leaves ingest_single_logo
on_ingest_exception_propagates(sofar, request, message) ==
    [sofar EXCEPT !.raised = TRUE, !.message = message]

\* lines 177-179: any exception is logged and answered as a failure
on_ingest_exception(sofar, request, message) ==
    [sofar EXCEPT
        !.audit = Append(@, audit_logo_ingested("", request.name, FALSE,
                                                 message)),
        !.response = LogoIngestionResponse(FALSE, None, None, message)]

\* the record collection.add stores for a document and its metadata; the
\* store computes the embedding from the document
StoredRecord(logo_id, document, metadata) ==
    [id |-> logo_id, document |-> document,
     embedding |-> [of |-> document], metadata |-> metadata]

ingest_single_logo(request, env) ==
    LET s == sanitize_svg(request.svg)
    IN IF s.status = "raise" /\ s.exc = "SVGSanitizationError"
       THEN [NoIngestion EXCEPT
               !.response = LogoIngestionResponse(FALSE, None, None,
                    "SVG sanitization failed: " \o sanitize_message(request.svg))]
       ELSE IF s.status = "raise"
       THEN on_ingest_exception(NoIngestion, request,
                                sanitize_message(request.svg))
       ELSE IF env.api_key = ""
       THEN [NoIngestion EXCEPT
               !.response = LogoIngestionResponse(FALSE, None, None,
                    "Anthropic API key not configured")]
       ELSE LET asked == [NoIngestion EXCEPT
                            !.described = <<markup_for_describer(request, s.doc)>>]
            IN IF env.describe.raises
               THEN on_ingest_exception(asked, request, env.describe.text)
               ELSE LET description == env.describe.text
                        logo_id == env.uuid
                        metadata ==
                           LogoMetadata(
                              [logo_id |-> logo_id,
                               name |-> request.name,
                               description |-> description,
                               logo_type |-> request.logo_type,
                               theme |-> request.theme,
                               shape |-> request.shape,
                               primary_color |-> request.primary_color,
                               accent_color |-> request.accent_color,
                               text |-> request.text,
                               svg_url |-> request.svg_url,
                               created_at |-> env.now])
                    IN IF env.add.raises
                       THEN on_ingest_exception(asked, request, env.add.text)
                       ELSE [asked EXCEPT
                               !.added = <<StoredRecord(logo_id, description,
                                              model_dump_exclude_none(metadata))>>,
                               !.audit = <<audit_logo_ingested(logo_id,
                                              request.name, TRUE, None)>>,
                               !.response = LogoIngestionResponse(TRUE, logo_id,
                                              description, None)]

\* the requests and surroundings explored
SvgWithScript ==
    MkDoc(FALSE, FALSE, "none",
          <<MkNode(0, FALSE, FALSE, "svg", {}, <<>>),
            MkNode(1, FALSE, FALSE, "script", {}, <<>>)>>)
SvgWithSurrogate ==
    MkDoc(FALSE, FALSE, "surrogate", <<MkNode(0, FALSE, FALSE, "svg", {}, <<>>)>>)

LogoIngestionRequest(svg, name, svg_url) ==
    [svg |-> svg, name |-> name, logo_type |-> "abstract", theme |-> None,
     shape |-> None, primary_color |-> None, accent_color |-> None,
     text |-> None, svg_url |-> svg_url]

\* what a collaborator answers: a text, or an exception with its message
Answers(texts, messages) ==
    [raises : {FALSE}, text : texts] \cup [raises : {TRUE}, text : messages]

ExceptionMessages == {"", "timed out"}

IngestEnvs(uuid) ==
    [api_key : {"", "sk-key"},
     describe : Answers({"", "A bold round mark"}, ExceptionMessages),
     add : Answers({""}, ExceptionMessages),
     uuid : {uuid},
     now : {"2025-01-01T00:00:00"}]

(***************************************************************************)
(* Batch ingestion (container/app/admin/ingestion.py).                     *)
(*                                                                         *)
(* batch_jobs is the registry _batch_jobs, in the order of creation (the   *)
(* id of a batch is its position); task[b] is the position of the          *)
(* background task _process_batch of batch b.  A task gives way to other   *)
(* tasks at its await only; the steps below are the blocks of statements   *)
(* between the loop's boundaries, none of which spans the await.           *)
(***************************************************************************)
\* the batches created, and the requests of all batches together
MaxBatches == 2
MaxItems == 3

\* the requests of the batches explored
BatchRequests ==
    {LogoIngestionRequest(svg, None, None) :
        svg \in {SvgWithScript, BlankDoc, SvgWithSurrogate}}

\* what ingest_single_logo can give for these requests
BatchOutcomes ==
    {ingest_single_logo(request, env) :
        request \in BatchRequests, env \in IngestEnvs("uuid")}

RECURSIVE SumTotals(_)
SumTotals(jobs) ==
    IF jobs = <<>> THEN 0 ELSE Head(jobs).total + SumTotals(Tail(jobs))

\* IngestionJob() as create_batch_job makes it
NewJob == [status |-> "pending", error |-> None]

\* create_batch_job: the batch is registered with one pending job per
\* request and its task is created
CreateBatchJob ==
    /\ Len(batch_jobs) < MaxBatches
    /\ \E total \in 0..(MaxItems - SumTotals(batch_jobs)) :
          /\ batch_jobs' = Append(batch_jobs,
                                  [status |-> "pending", total |-> total,
                                   completed |-> 0, failed |-> 0,
                                   jobs |-> [i \in 1..total |-> NewJob]])
          /\ task' = Append(task, [pc |-> "created", i |-> 0])
    /\ UNCHANGED <<input, pc, res, res2, val, args, fn, ret, store, audit_log>>

\* _process_batch up to the loop: the batch is processing
StartBatch(b) ==
    /\ task[b].pc = "created"
    /\ batch_jobs' = [batch_jobs EXCEPT ![b].status = "processing"]
    /\ task' = [task EXCEPT ![b] = [pc |-> "loop", i |-> 1]]
    /\ UNCHANGED <<input, pc, res, res2, val, args, fn, ret, store, audit_log>>

\* every pending job of the batch is started at once
StartItem_all(b) ==
    /\ task[b].pc = "loop"
    /\ task[b].i <= batch_jobs[b].total
    /\ batch_jobs' = [batch_jobs EXCEPT ![b].jobs =
                         [i \in 1..Len(@) |->
                             IF @[i].status = "pending"
                             THEN [@[i] EXCEPT !.status = "processing"]
                             ELSE @[i]]]
    /\ task' = [task EXCEPT ![b].pc = "awaiting"]
    /\ UNCHANGED <<input, pc, res, res2, val, args, fn, ret, store, audit_log>>

\* the head of one iteration: the job is processing and ingest_single_logo
\* is awaited
StartItem(b) ==
    /\ task[b].pc = "loop"
    /\ task[b].i <= batch_jobs[b].total
    /\ batch_jobs' = [batch_jobs EXCEPT ![b].jobs[task[b].i].status = "processing"]
    /\ task' = [task EXCEPT ![b].pc = "awaiting"]
    /\ UNCHANGED <<input, pc, res, res2, val, args, fn, ret, store, audit_log>>

\* a failed item ends the task
FinishItem_aborting(b) ==
    /\ task[b].pc = "awaiting"
    /\ \E result \in BatchOutcomes :
          LET i == task[b].i
          IN IF result.response.success
             THEN /\ batch_jobs' = [batch_jobs EXCEPT
                                       ![b].jobs[i].status = "completed",
                                       ![b].completed = @ + 1]
                  /\ task' = [task EXCEPT ![b] = [pc |-> "loop", i |-> i + 1]]
             ELSE /\ batch_jobs' = [batch_jobs EXCEPT
                                       ![b].jobs[i].status = "failed",
                                       ![b].jobs[i].error = result.response.error,
                                       ![b].failed = @ + 1]
                  /\ task' = [task EXCEPT ![b].pc = "done"]
    /\ UNCHANGED <<input, pc, res, res2, val, args, fn, ret, store, audit_log>>

\* the rest of the iteration: ingest_single_logo has returned success, has
\* returned a failure, or has raised.  The request is the one of the list
\* given to create_batch_job; the registry does not hold it, so it is
\* drawn here.
FinishItem(b) ==
    /\ task[b].pc = "awaiting"
    /\ \E result \in BatchOutcomes :
          LET i == task[b].i
          IN batch_jobs' =
                IF result.raised
                THEN [batch_jobs EXCEPT ![b].jobs[i].status = "failed",
                                        ![b].jobs[i].error = result.message,
                                        ![b].failed = @ + 1]
                ELSE IF result.response.success
                THEN [batch_jobs EXCEPT ![b].jobs[i].status = "completed",
                                        ![b].completed = @ + 1]
                ELSE [batch_jobs EXCEPT ![b].jobs[i].status = "failed",
                                        ![b].jobs[i].error = result.response.error,
                                        ![b].failed = @ + 1]
    /\ task' = [task EXCEPT ![b] = [pc |-> "loop", i |-> task[b].i + 1]]
    /\ UNCHANGED <<input, pc, res, res2, val, args, fn, ret, store, audit_log>>

\* the batch is completed while requests may remain
FinishBatch_early(b) ==
    /\ task[b].pc = "loop"
    /\ batch_jobs' = [batch_jobs EXCEPT ![b].status = "completed"]
    /\ task' = [task EXCEPT ![b].pc = "done"]
    /\ UNCHANGED <<input, pc, res, res2, val, args, fn, ret, store, audit_log>>

\* after the loop: the batch is completed
FinishBatch(b) ==
    /\ task[b].pc = "loop"
    /\ task[b].i > batch_jobs[b].total
    /\ batch_jobs' = [batch_jobs EXCEPT ![b].status = "completed"]
    /\ task' = [task EXCEPT ![b].pc = "done"]
    /\ UNCHANGED <<input, pc, res, res2, val, args, fn, ret, store, audit_log>>

InitBatch ==
    /\ batch_jobs = <<>> /\ task = <<>>
    /\ args = Unused /\ fn = Unused /\ ret = Unused
    /\ SanitizerUnused /\ StoreUnused

NextBatch ==
    \/ CreateBatchJob
    \/ \E b \in 1..Len(batch_jobs) : StartBatch(b)
    \/ \E b \in 1..Len(batch_jobs) : StartItem(b)
    \/ \E b \in 1..Len(batch_jobs) : FinishItem(b)
    \/ \E b \in 1..Len(batch_jobs) : FinishBatch(b)

SpecBatch == InitBatch /\ [][NextBatch]_vars

\* a step of the task of batch b
TaskStep(b) ==
    /\ b \in 1..Len(batch_jobs)
    /\ StartBatch(b) \/ StartItem(b) \/ FinishItem(b) \/ FinishBatch(b)

\* the event loop runs every task it holds: asyncio.create_task puts the
\* task on the loop's queue, and the loop resumes a task whose awaited call
\* has returned
SpecBatchFair ==
    SpecBatch /\ \A b \in 1..MaxBatches : WF_vars(TaskStep(b))

(***************************************************************************)
(* Properties of batch ingestion                                           *)
(***************************************************************************)
\* the number of jobs of batch b in the given status
JobsIn(b, status) ==
    Cardinality({i \in 1..Len(batch_jobs[b].jobs) :
                    batch_jobs[b].jobs[i].status = status})

\* the counters of every batch are the numbers of its completed and failed
\* jobs, and a completed batch has terminal jobs only
BatchCountsExact ==
    \A b \in 1..Len(batch_jobs) :
        /\ batch_jobs[b].completed = JobsIn(b, "completed")
        /\ batch_jobs[b].failed = JobsIn(b, "failed")
        /\ batch_jobs[b].completed + batch_jobs[b].failed <= batch_jobs[b].total
        /\ Len(batch_jobs[b].jobs) = batch_jobs[b].total
        /\ batch_jobs[b].status = "completed" =>
              \A i \in 1..Len(batch_jobs[b].jobs) :
                  batch_jobs[b].jobs[i].status \in {"completed", "failed"}

\* every step leaves the status of a job alone or moves it from pending to
\* processing or from processing to completed or failed
JobStepsLegal ==
    \A b \in 1..Len(batch_jobs) : \A i \in 1..Len(batch_jobs[b].jobs) :
        \/ batch_jobs'[b].jobs[i].status = batch_jobs[b].jobs[i].status
        \/ <<batch_jobs[b].jobs[i].status, batch_jobs'[b].jobs[i].status>>
              \in {<<"pending", "processing">>,
                   <<"processing", "completed">>,
                   <<"processing", "failed">>}

\* C20: each item job of a batch only moves pending -> processing ->
\* completed or failed (never backwards, never past processing, never out of
\* a terminal state); a batch is completed only while all its jobs are
\* completed or failed; and always batch.completed and batch.failed are the
\* numbers of its completed and failed jobs, with completed + failed <=
\* total.
C20_BatchLifecycle == [][JobStepsLegal]_vars /\ []BatchCountsExact

\* C20 witness: a batch of two requests is completed with one job completed
\* and one failed, while another batch is still being processed
C20_Witness ==
    \E b, c \in 1..Len(batch_jobs) :
        /\ batch_jobs[b].status = "completed" /\ batch_jobs[b].total = 2
        /\ batch_jobs[b].completed = 1 /\ batch_jobs[b].failed = 1
        /\ batch_jobs[c].status = "processing"

\* every batch that was created is completed at some time, with all its
\* requests counted
EveryBatchCompletes ==
    \A b \in 1..MaxBatches :
        [](b <= Len(batch_jobs)
           => <>(/\ b <= Len(batch_jobs)
                 /\ batch_jobs[b].status = "completed"
                 /\ batch_jobs[b].completed + batch_jobs[b].failed
                       = batch_jobs[b].total))

\* in a completed batch no job was left out
CompletedMeansAllDone ==
    \A b \in 1..Len(batch_jobs) :
        batch_jobs[b].status = "completed" =>
            \A i \in 1..batch_jobs[b].total :
                batch_jobs[b].jobs[i].status \in {"completed", "failed"}

FailedJobs ==
    {<<b, i>> \in (1..Len(batch_jobs)) \X (1..MaxItems) :
        /\ i <= Len(batch_jobs[b].jobs)
        /\ batch_jobs[b].jobs[i].status = "failed"}

\* C21 as stated: a failure of one item never aborts its batch: whichever
\* items fail, every later item is still processed, each failed item
\* records a non-empty error, and the batch eventually is completed with
\* completed + failed = total.
C21_NeverAborts ==
    /\ EveryBatchCompletes
    /\ [](/\ CompletedMeansAllDone
          /\ \A j \in FailedJobs :
                batch_jobs[j[1]].jobs[j[2]].error \notin {None, ""})

\* C21, amended: as above, except that the error a failed item records is
\* a text that may be empty: it is the message of the exception when the
\* description generator or the store raised, and an exception may have no
\* message.
C21_NeverAborts_ErrorRecorded ==
    /\ EveryBatchCompletes
    /\ [](/\ CompletedMeansAllDone
          /\ \A j \in FailedJobs :
                batch_jobs[j[1]].jobs[j[2]].error # None)

\* C21 witness: a batch whose first request failed is completed, its later
\* request was processed and succeeded, and the failed job has an error
C21_Witness ==
    \E b \in 1..Len(batch_jobs) :
        /\ batch_jobs[b].status = "completed" /\ batch_jobs[b].total = 2
        /\ batch_jobs[b].jobs[1].status = "failed"
        /\ batch_jobs[b].jobs[1].error = "Anthropic API key not configured"
        /\ batch_jobs[b].jobs[2].status = "completed"
        /\ batch_jobs[b].completed = 1 /\ batch_jobs[b].failed = 1

\* a step changes the jobs and counters of a batch only if it is a step of
\* that batch's task, and then it changes no other batch
OwnTaskOnly ==
    \A b \in 1..Len(batch_jobs) :
        batch_jobs'[b] # batch_jobs[b] =>
            /\ task'[b] # task[b]
            /\ \A c \in (1..Len(batch_jobs)) \ {b} :
                  batch_jobs'[c] = batch_jobs[c] /\ task'[c] = task[c]

\* at most one job of a batch is processing, and a job has left pending
\* only if the job before it is completed or failed
OneAtATime ==
    \A b \in 1..Len(batch_jobs) :
        /\ JobsIn(b, "processing") <= 1
        /\ \A i \in 2..Len(batch_jobs[b].jobs) :
              batch_jobs[b].jobs[i].status # "pending" =>
                  batch_jobs[b].jobs[i - 1].status \in {"completed", "failed"}

\* C22: within one batch the items are processed one after the other in
\* list order: at most one job of a batch is processing at any time, and
\* item i+1 leaves pending only after item i is completed or failed; when
\* several batches run at once, the jobs and counters of a batch are
\* changed only by that batch's own task.
C22_Sequential == [][OwnTaskOnly]_vars /\ []OneAtATime

\* C22 witness: two batches are being processed at once, one at its second
\* request after its first, the other at its first
C22_Witness ==
    \E b, c \in 1..Len(batch_jobs) :
        /\ b # c
        /\ batch_jobs[b].jobs # <<>> /\ batch_jobs[c].jobs # <<>>
        /\ Len(batch_jobs[b].jobs) = 2
        /\ batch_jobs[b].jobs[1].status \in {"completed", "failed"}
        /\ batch_jobs[b].jobs[2].status = "processing"
        /\ batch_jobs[c].jobs[1].status = "processing"

(***************************************************************************)
(* The logo store and the management handlers                              *)
(* (container/app/rag/chroma_client.py, container/app/admin/management.py, *)
(* container/app/admin/routes.py).                                         *)
(*                                                                         *)
(* store is the collection: a set of records, one per id.  A handler is    *)
(* given the store st it finds and env, what the store does during the     *)
(* call: env.failing holds the requests to the store (kind and id) that    *)
(* raise, env.message the message of their exception.  Its result is the   *)
(* HTTP status, the body returned, the detail of the error, the store it   *)
(* leaves, the audit entries it logged and the requests it sent to the     *)
(* store.  The audit log is only ever appended to: audit_log holds the     *)
(* entries of the call at hand.                                            *)
(***************************************************************************)
MaxLogos == 2
MaxDeleteIds == 2

\* line 272: the most ids one batch deletion accepts
MaxDeleteBatch == 100

IdNames == <<"a", "b", "c", "d">>
IdPool == {IdNames[i] : i \in 1..MaxLogos}

\* dict.update
dict_update(d, u) ==
    [k \in DOMAIN d \cup DOMAIN u |-> IF k \in DOMAIN u THEN u[k] ELSE d[k]]

\* ChromaLogoClient.get_logo: the metadata of the record, None when the
\* collection has no record of this id
client_get_logo(st, env, logo_id) ==
    IF <<"get", logo_id>> \in env.failing
    THEN [raised |-> TRUE, value |-> Nothing]
    ELSE LET results == {r \in st : r.id = logo_id}
         IN [raised |-> FALSE,
             value |-> IF results # {}
                       THEN Some(LogoMetadata((CHOOSE r \in results : TRUE).metadata))
                       ELSE Nothing]

\* the update also replaces the document and its embedding
client_update_logo_reembedding(st, logo_id, metadata) ==
    {IF r.id = logo_id
     THEN StoredRecord(r.id, "", dict_update(r.metadata,
                                             model_dump_exclude_none(metadata)))
     ELSE r : r \in st}

\* ChromaLogoClient.update_logo: collection.update with metadatas only
client_update_logo(st, logo_id, metadata) ==
    {IF r.id = logo_id
     THEN [r EXCEPT !.metadata =
              dict_update(@, model_dump_exclude_none(metadata))]
     ELSE r : r \in st}

\* ChromaLogoClient.delete_logo
client_delete_logo(st, logo_id) == {r \in st : r.id # logo_id}

audit_logo_updated(logo_id, fields, success, error) ==
    AuditEntry("logo_updated", logo_id, fields, success, error)

audit_logo_deleted(logo_id, success, error) ==
    AuditEntry("logo_deleted", logo_id, <<>>, success, error)

HttpResult(status, body, detail, st, audit, calls) ==
    [status |-> status, body |-> body, detail |-> detail, st |-> st,
     audit |-> audit, calls |-> calls]

\* the not-found error is handled like any other exception
on_not_found_swallowed(logo_id, st, calls) ==
    HttpResult(500, Nothing, "Failed: " \o "Logo " \o logo_id \o " not found",
               st, <<AuditEntry("failed", logo_id, <<>>, FALSE, "not found")>>,
               calls)

\* raise HTTPException(404), passed on by "except HTTPException: raise"
on_not_found(logo_id, st, calls) ==
    HttpResult(404, Nothing, "Logo " \o logo_id \o " not found", st, <<>>, calls)

\* management.get_logo
get_logo(logo_id, st, env) ==
    LET logo == client_get_logo(st, env, logo_id)
    IN IF logo.raised
       THEN HttpResult(500, Nothing, "Failed to get logo: " \o env.message,
                       st, <<>>, <<"get">>)
       ELSE IF ~logo.value.some
       THEN on_not_found(logo_id, st, <<"get">>)
       ELSE HttpResult(200, logo.value, None, st, <<>>, <<"get">>)

\* the fields of LogoUpdateRequest, in the order of their declaration
UpdateFields ==
    <<"name", "logo_type", "theme", "shape", "primary_color", "accent_color",
      "text">>

\* every field of the request, None included
update_data_of_all(request) == request

\* line 174: request.model_dump(exclude_none=True)
update_data_of(request) == model_dump_exclude_none(request)

\* management.update_logo
update_logo(logo_id, request, st, env) ==
    LET existing == client_get_logo(st, env, logo_id)
        failed(calls) ==
            HttpResult(500, Nothing, "Failed to update logo: " \o env.message,
                       st, <<audit_logo_updated(logo_id, <<>>, FALSE, env.message)>>,
                       calls)
    IN IF existing.raised
       THEN failed(<<"get">>)
       ELSE IF ~existing.value.some
       THEN on_not_found(logo_id, st, <<"get">>)
       ELSE LET update_data == update_data_of(request)
                updated_fields ==
                    SelectSeq(UpdateFields, LAMBDA f : f \in DOMAIN update_data)
            IN IF updated_fields = <<>>
               THEN HttpResult(200, existing.value, None, st, <<>>, <<"get">>)
               ELSE LET updated_metadata ==
                           LogoMetadata(dict_update(existing.value.v, update_data))
                    IN IF <<"update", logo_id>> \in env.failing
                       THEN failed(<<"get", "update">>)
                       ELSE HttpResult(200, Some(updated_metadata), None,
                               client_update_logo(st, logo_id, updated_metadata),
                               <<audit_logo_updated(logo_id, updated_fields,
                                                    TRUE, None)>>,
                               <<"get", "update">>)

LogoDeleteResponse(success, deleted_ids, errors) ==
    [success |-> success, deleted_ids |-> deleted_ids, errors |-> errors]

\* management.delete_logo
delete_logo(logo_id, st, env) ==
    LET existing == client_get_logo(st, env, logo_id)
        failed(calls) ==
            HttpResult(500, Nothing, "Failed to delete logo: " \o env.message,
                       st, <<audit_logo_deleted(logo_id, FALSE, env.message)>>,
                       calls)
    IN IF existing.raised
       THEN failed(<<"get">>)
       ELSE IF ~existing.value.some
       THEN on_not_found(logo_id, st, <<"get">>)
       ELSE IF <<"delete", logo_id>> \in env.failing
       THEN failed(<<"get", "delete">>)
       ELSE HttpResult(200,
                       Some(LogoDeleteResponse(TRUE, <<logo_id>>, <<>>)), None,
                       client_delete_logo(st, logo_id),
                       <<audit_logo_deleted(logo_id, TRUE, None)>>,
                       <<"get", "delete">>)

\* lines 284-298: the loop of delete_logos_batch over the ids that are left,
\* sofar holding the store, the two lists, the audit entries and the requests
\* sent to the store
RECURSIVE delete_each(_, _, _)
delete_each(logo_ids, sofar, env) ==
    IF logo_ids = <<>> THEN sofar
    ELSE
    LET logo_id == Head(logo_ids)
        existing == client_get_logo(sofar.st, env, logo_id)
        failed(calls) ==
            [sofar EXCEPT
                !.errors = Append(@, "Failed to delete " \o logo_id \o ": "
                                     \o env.message),
                !.audit = Append(@, audit_logo_deleted(logo_id, FALSE, env.message)),
                !.calls = @ \o calls]
        after ==
            IF existing.raised
            THEN failed(<<"get">>)
            ELSE IF ~existing.value.some
            THEN [sofar EXCEPT
                    !.errors = Append(@, "Logo " \o logo_id \o " not found"),
                    !.calls = Append(@, "get")]
            ELSE IF <<"delete", logo_id>> \in env.failing
            THEN failed(<<"get", "delete">>)
            ELSE [sofar EXCEPT
                    !.st = client_delete_logo(@, logo_id),
                    !.deleted_ids = Append(@, logo_id),
                    !.audit = Append(@, audit_logo_deleted(logo_id, TRUE, None)),
                    !.calls = @ \o <<"get", "delete">>]
    IN delete_each(Tail(logo_ids), after, env)

\* management.delete_logos_batch
delete_logos_batch(logo_ids, st, env) ==
    IF logo_ids = <<>>
    THEN HttpResult(400, Nothing, "No logo IDs provided", st, <<>>, <<>>)
    ELSE IF Len(logo_ids) > MaxDeleteBatch
    THEN HttpResult(400, Nothing, "Maximum 100 logos per batch deletion",
                    st, <<>>, <<>>)
    ELSE LET done == delete_each(logo_ids,
                                 [st |-> st, deleted_ids |-> <<>>, errors |-> <<>>,
                                  audit |-> <<>>, calls |-> <<>>], env)
         IN HttpResult(200,
                       Some(LogoDeleteResponse(done.errors = <<>>,
                                               done.deleted_ids, done.errors)),
                       None, done.st, done.audit, done.calls)

(***************************************************************************)
(* The calls of the store (SpecStore): requests are handled one at a time, *)
(* each against the store the earlier ones left.                           *)
(***************************************************************************)
LogoUpdateRequest(name, theme) ==
    [name |-> name, logo_type |-> None, theme |-> theme, shape |-> None,
     primary_color |-> None, accent_color |-> None, text |-> None]

StoreEnvs ==
    [failing : {{}} \cup {{<<k, id>>} : k \in {"get", "update", "delete"},
                                         id \in IdPool},
     message : {"timed out"}]

\* sequences of ids of up to n ids
RECURSIVE IdLists(_)
IdLists(n) ==
    IF n = 0 THEN {<<>>}
    ELSE IdLists(n - 1)
         \cup {Append(l, id) : l \in {x \in IdLists(n - 1) : Len(x) = n - 1},
                               id \in IdPool}

InitStore ==
    /\ store = {} /\ audit_log = <<>>
    /\ fn = NoCallYet /\ args = NoCallYet /\ ret = NoCallYet
    /\ SanitizerUnused /\ BatchUnused

\* POST /admin/ingest; uuid4 draws an id that no record has
IngestLogo ==
    /\ fn = NoCallYet
    /\ \E svg \in {SvgWithScript, BlankDoc, SvgWithSurrogate} :
       \E name \in {None, "Acme"} :
       \E uuid \in IdPool \ {r.id : r \in store} :
       \E env \in IngestEnvs(uuid) :
          LET request == LogoIngestionRequest(svg, name, "r2://logo.svg")
              result == ingest_single_logo(request, env)
          IN /\ fn' = "ingest_single_logo"
             /\ args' = [request |-> request, env |-> env, st |-> store]
             /\ ret' = result
             /\ store' = store \cup {result.added[i] : i \in 1..Len(result.added)}
             /\ audit_log' = result.audit
    /\ UNCHANGED <<input, pc, res, res2, val, batch_jobs, task>>

\* GET /admin/logos/{logo_id}
GetLogo ==
    /\ fn = NoCallYet
    /\ \E logo_id \in IdPool : \E env \in StoreEnvs :
          LET result == get_logo(logo_id, store, env)
          IN /\ fn' = "get_logo"
             /\ args' = [logo_id |-> logo_id, env |-> env, st |-> store]
             /\ ret' = result
             /\ store' = result.st
             /\ audit_log' = result.audit
    /\ UNCHANGED <<input, pc, res, res2, val, batch_jobs, task>>

\* PATCH /admin/logos/{logo_id}
UpdateLogo ==
    /\ fn = NoCallYet
    /\ \E logo_id \in IdPool : \E env \in StoreEnvs :
       \E name \in {None, "Zen"} : \E theme \in {None, "modern"} :
          LET request == LogoUpdateRequest(name, theme)
              result == update_logo(logo_id, request, store, env)
          IN /\ fn' = "update_logo"
             /\ args' = [logo_id |-> logo_id, request |-> request, env |-> env,
                         st |-> store]
             /\ ret' = result
             /\ store' = result.st
             /\ audit_log' = result.audit
    /\ UNCHANGED <<input, pc, res, res2, val, batch_jobs, task>>

\* DELETE /admin/logos/{logo_id}
DeleteLogo ==
    /\ fn = NoCallYet
    /\ \E logo_id \in IdPool : \E env \in StoreEnvs :
          LET result == delete_logo(logo_id, store, env)
          IN /\ fn' = "delete_logo"
             /\ args' = [logo_id |-> logo_id, env |-> env, st |-> store]
             /\ ret' = result
             /\ store' = result.st
             /\ audit_log' = result.audit
    /\ UNCHANGED <<input, pc, res, res2, val, batch_jobs, task>>

\* POST /admin/logos/delete-batch
DeleteLogosBatch ==
    /\ fn = NoCallYet
    /\ \E logo_ids \in IdLists(MaxDeleteIds) : \E env \in StoreEnvs :
          LET result == delete_logos_batch(logo_ids, store, env)
          IN /\ fn' = "delete_logos_batch"
             /\ args' = [logo_ids |-> logo_ids, env |-> env, st |-> store]
             /\ ret' = result
             /\ store' = result.st
             /\ audit_log' = result.audit
    /\ UNCHANGED <<input, pc, res, res2, val, batch_jobs, task>>

\* the response is sent: the call is over
Respond ==
    /\ fn # NoCallYet
    /\ fn' = NoCallYet /\ args' = NoCallYet /\ ret' = NoCallYet
    /\ audit_log' = <<>>
    /\ UNCHANGED <<input, pc, res, res2, val, batch_jobs, task, store>>

NextStore ==
    \/ IngestLogo \/ GetLogo \/ UpdateLogo \/ DeleteLogo \/ DeleteLogosBatch
    \/ Respond

SpecStore == InitStore /\ [][NextStore]_vars

(***************************************************************************)
(* Properties of the ingestion of one logo and of the store                *)
(***************************************************************************)
\* ingest_single_logo was called and the call is over
Ingested == fn = "ingest_single_logo"

\* what sanitize_svg gives for the markup of the request
SanitizedRequest == sanitize_svg(args.request.svg)

\* C24: ingest_single_logo writes a record to the store only after the
\* markup was sanitized successfully and a description was obtained; the
\* markup handed to the description generator is the sanitized output, never
\* the raw input; when sanitization fails, the API key is missing or the
\* description generator raises, the response has success=false with an
\* error, nothing is written and the store is unchanged; and
\* ingest_single_logo never raises.
C24_IngestOrder ==
    Ingested =>
        /\ ~ret.raised
        /\ \A i \in 1..Len(ret.described) :
              /\ SanitizedRequest.status = "ok"
              /\ ret.described[i] = SanitizedRequest.doc
              /\ ret.described[i] # args.request.svg
        /\ (ret.added # <<>> \/ store # args.st) =>
              /\ SanitizedRequest.status = "ok"
              /\ Len(ret.described) = 1
              /\ ~args.env.describe.raises
              /\ ret.response.success
              /\ Len(ret.added) = 1
              /\ ret.added[1].document = args.env.describe.text
              /\ store = args.st \cup {ret.added[1]}
        /\ (\/ SanitizedRequest.status # "ok"
            \/ args.env.api_key = ""
            \/ args.env.describe.raises) =>
              /\ ~ret.response.success
              /\ ret.response.error # None
              /\ ret.added = <<>>
              /\ store = args.st

\* C24 witness: a logo with a script element was ingested: the description
\* generator was given the markup without the script, and the record is in
\* the store
C24_Witness ==
    /\ Ingested
    /\ args.request.svg = SvgWithScript
    /\ ret.response.success
    /\ Len(ret.described) = 1
    /\ Len(ret.described[1].nodes) = 1
    /\ \E r \in store : r \notin args.st /\ r.id = ret.response.logo_id

\* C25: after any sequence of ingest, update and delete operations, every
\* record in the store has a non-empty description.
C25_DescriptionNeverEmpty ==
    \A r \in store :
        /\ "description" \in DOMAIN r.metadata
        /\ r.metadata.description # ""

\* update_logo was called for a record of the store and has answered 200
Updated ==
    /\ fn = "update_logo" /\ ret.status = 200
    /\ \E r \in args.st : r.id = args.logo_id

RecordOf(st, logo_id) == CHOOSE r \in st : r.id = logo_id

\* C26: update_logo never changes a record's logo_id, created_at,
\* description or svg_url: the metadata written to the store has these
\* fields equal to the existing record's, and only the fields supplied
\* (non-null) in the request differ; a request with no fields performs no
\* store write and returns the existing record; the stored document and
\* embedding are not touched.
C26_UpdateFrame ==
    /\ fn = "update_logo" =>
          /\ {r.id : r \in store} = {r.id : r \in args.st}
          /\ \A r \in store : r.id # args.logo_id => r \in args.st
          /\ ret.status # 200 => store = args.st
    /\ Updated =>
          LET old == RecordOf(args.st, args.logo_id)
              new == RecordOf(store, args.logo_id)
              before == LogoMetadata(old.metadata)
              after == LogoMetadata(new.metadata)
          IN /\ new.document = old.document
             /\ new.embedding = old.embedding
             /\ ret.body = Some(after)
             /\ \A f \in {"logo_id", "created_at", "description", "svg_url"} :
                   after[f] = before[f]
             /\ \A f \in MetadataFields :
                   after[f] # before[f] =>
                      /\ f \in DOMAIN args.request
                      /\ args.request[f] # None
                      /\ after[f] = args.request[f]
             /\ \A f \in DOMAIN args.request :
                   args.request[f] # None => after[f] = args.request[f]
             /\ (\A f \in DOMAIN args.request : args.request[f] = None) =>
                   /\ ret.calls = <<"get">>
                   /\ store = args.st
                   /\ ret.body = Some(before)

\* C26 witness: the theme of a record with a name, a description and an
\* svg_url was set, and nothing else of the record changed
C26_Witness ==
    /\ Updated
    /\ args.request.theme = "modern" /\ args.request.name = None
    /\ LET old == RecordOf(args.st, args.logo_id)
           new == RecordOf(store, args.logo_id)
           before == LogoMetadata(old.metadata)
           after == LogoMetadata(new.metadata)
       IN /\ "theme" \notin DOMAIN old.metadata
          /\ after.theme = "modern"
          /\ after.name = "Acme" /\ before.name = "Acme"
          /\ after.svg_url = "r2://logo.svg"
          /\ after.description = "A bold round mark"
          /\ ret.calls = <<"get", "update">>

\* a call of get_logo, update_logo or delete_logo for an id that the store
\* does not hold
AbsentIdCall ==
    /\ fn \in {"get_logo", "update_logo", "delete_logo"}
    /\ \A r \in args.st : r.id # args.logo_id

\* C27: an identifier absent from the store is a distinct outcome from a
\* store error: ChromaLogoClient.get_logo returns None for it, without an
\* exception, and get, update and delete of such an id answer 404 rather
\* than the 500 used for store exceptions, send no update or delete to the
\* store and emit no audit entry.
C27_NotFound ==
    /\ AbsentIdCall /\ <<"get", args.logo_id>> \notin args.env.failing =>
          /\ client_get_logo(args.st, args.env, args.logo_id)
                = [raised |-> FALSE, value |-> Nothing]
          /\ ret.status = 404
          /\ ret.calls = <<"get">>
          /\ ret.audit = <<>> /\ audit_log = <<>>
          /\ store = args.st
    /\ fn \in {"get_logo", "update_logo", "delete_logo"} =>
          /\ ret.status = 404 => AbsentIdCall
          /\ ret.status = 500 <=>
                \E c \in {ret.calls[i] : i \in 1..Len(ret.calls)} :
                    <<c, args.logo_id>> \in args.env.failing

\* C27 witness: the deletion of an id that the store does not hold, while it
\* holds another, was answered 404 and left the store alone
C27_Witness ==
    /\ AbsentIdCall /\ fn = "delete_logo"
    /\ args.st # {} /\ args.env.failing = {<<"delete", args.logo_id>>}
    /\ ret.status = 404 /\ store = args.st

\* C28: delete_logos_batch returns a successful response (success=true)
\* even if some of the deletions fail, with the failures listed in errors;
\* every requested id ends up either in deleted_ids or with exactly one
\* entry in errors, and a failure on one id does not stop the remaining ids
\* from being processed.
C28_BatchDeleteSucceeds ==
    (fn = "delete_logos_batch" /\ args.logo_ids # <<>>) =>
        /\ ret.status = 200
        /\ ret.body.v.success
        /\ Len(ret.body.v.deleted_ids) + Len(ret.body.v.errors)
              = Len(args.logo_ids)
        /\ Len(SelectSeq(ret.calls, LAMBDA c : c = "get")) = Len(args.logo_ids)

(***************************************************************************)
(* The admin key (container/app/admin/auth.py) and the dependency of the   *)
(* admin routes (container/app/admin/routes.py, management.py).            *)
(*                                                                         *)
(* Every admin route declares the parameter "_: AdminKeyDependency =       *)
(* Depends()".  FastAPI takes the dependency of a parameter from a Depends *)
(* object, found among the metadata of an Annotated type or as the         *)
(* default; a Depends object without a callable stands for the annotated   *)
(* type itself.  How the framework treats the callable it ends up with is  *)
(* part of env: inspect.signature(str) raises ValueError on CPython 3.11,  *)
(* which stops the registration of the route; where str has a signature,   *)
(* the route is registered and str() is called for each request.           *)
(***************************************************************************)
\* get_admin_api_key: the key of the environment, RuntimeError without one
get_admin_api_key(env) ==
    IF ~Truthy(env.ADMIN_API_KEY)
    THEN [raised |-> TRUE, key |-> None]
    ELSE [raised |-> FALSE, key |-> env.ADMIN_API_KEY]

\* what a dependency gives: the status it answers with (0: none, the
\* request goes on to the handler)
Proceed == [status |-> 0]
Reject(status) == [status |-> status]

\* require_admin_key
require_admin_key(x_admin_key, env) ==
    IF ~Truthy(x_admin_key)
    THEN Reject(401)
    ELSE LET expected_key == get_admin_api_key(env)
         IN IF expected_key.raised THEN Reject(500)
            ELSE IF x_admin_key # expected_key.key THEN Reject(403)
            ELSE Proceed

\* auth.py line 51: Annotated[str, require_admin_key]; the metadata is the
\* function itself, not a Depends object
AdminKeyDependency ==
    [type |-> "str",
     metadata |-> <<[kind |-> "function", call |-> "require_admin_key"]>>]

\* the default of the parameter: Depends()
DependsDefault == [kind |-> "Depends", call |-> None]

\* the callable FastAPI uses for a parameter with this annotation and default
ResolveDependency(annotation, default) ==
    LET marked == SelectSeq(annotation.metadata, LAMBDA x : x.kind = "Depends")
        depends == IF marked # <<>> THEN marked[Len(marked)] ELSE default
    IN IF depends.call = None THEN annotation.type ELSE depends.call

AdminEndpoints ==
    {"ingest_logo", "create_batch_ingestion", "get_batch_ingestion_status",
     "list_batch_ingestion_jobs", "sanitize_svg_endpoint",
     "validate_svg_endpoint", "list_logos", "get_logo", "update_logo",
     "delete_logo", "delete_logos_batch"}

\* one request to an admin route: whether the route exists, the status
\* answered and whether the handler ran (sanitization, job creation, store
\* access)
admin_request(endpoint, x_admin_key, env) ==
    LET dependency == ResolveDependency(AdminKeyDependency, DependsDefault)
        checked == IF dependency = "require_admin_key"
                   THEN require_admin_key(x_admin_key, env)
                   ELSE Proceed
    IN IF dependency = "str" /\ env.signature_of_str = "ValueError"
       THEN [served |-> FALSE, status |-> 0, acted |-> FALSE]
       ELSE IF checked.status # 0
       THEN [served |-> TRUE, status |-> checked.status, acted |-> FALSE]
       ELSE [served |-> TRUE, status |-> 200, acted |-> TRUE]

InitAuth ==
    /\ \E endpoint \in AdminEndpoints :
       \E x_admin_key \in {None, "", "secret", "guess"} :
       \E key \in {None, "secret", "other"} :
       \E signature_of_str \in {"ValueError", "signature"} :
          args = [endpoint |-> endpoint, x_admin_key |-> x_admin_key,
                  env |-> [ADMIN_API_KEY |-> key,
                           signature_of_str |-> signature_of_str]]
    /\ fn = NoCallYet /\ ret = NoCallYet
    /\ SanitizerUnused /\ BatchUnused /\ StoreUnused

AdminRequest ==
    /\ fn = NoCallYet
    /\ fn' = args.endpoint
    /\ ret' = admin_request(args.endpoint, args.x_admin_key, args.env)
    /\ UNCHANGED <<input, pc, res, res2, val, args, batch_jobs, task,
                   store, audit_log>>

NextAuth == AdminRequest

SpecAuth == InitAuth /\ [][NextAuth]_vars

\* C23: every admin endpoint performs its action only for a request whose
\* X-Admin-Key header equals the configured ADMIN_API_KEY: a request without
\* the header is rejected with 401 and one with a different key with 403,
\* before any sanitization, job creation or store access happens.
C23_AdminKeyRequired ==
    (fn \in AdminEndpoints /\ Truthy(args.env.ADMIN_API_KEY)) =>
        /\ ret.acted => args.x_admin_key = args.env.ADMIN_API_KEY
        /\ args.x_admin_key = None => ret.status = 401 /\ ~ret.acted
        /\ (args.x_admin_key # None
            /\ args.x_admin_key # args.env.ADMIN_API_KEY) =>
              ret.status \in {401, 403} /\ ~ret.acted

(***************************************************************************)
(* Further properties of sanitize_svg: the root and the allowed children   *)
(***************************************************************************)
\* C29: whenever sanitize_svg succeeds, the root of its output is itself an
\* allow-listed element: no input, with or without an XML prolog, yields a
\* document whose root has a name outside the allow-list, such as script.
\* (The lower-cased local name is compared, the reading most favourable to
\* the code.)
C29_RootAllowed ==
    Sanitized =>
        /\ LowerName(res.tree[1].tag.local) \in ALLOWED_ELEMENTS
        /\ LowerName(res.doc.nodes[1].local) \in ALLOWED_ELEMENTS

\* the element of the output that was element i of the parsed input
OutputOf(i) == {k \in 1..Len(res.tree) : res.tree[k].orig = i}

\* an attribute that is neither an event handler nor a carrier of a
\* script-capable scheme
Benign(a) ==
    /\ LowerName(a.name) \notin DANGEROUS_ATTRIBUTES
    /\ ~MatchesDangerousPattern(a.value)

\* C30: whenever sanitize_svg succeeds, every element of the input whose
\* namespace-stripped name is in ALLOWED_ELEMENTS (linearGradient,
\* radialGradient and clipPath included) and whose parent is in the output
\* is in the output too, with its benign attributes and their values
\* unchanged.
C30_AllowedKept ==
    Sanitized =>
        \A i \in 2..Len(ParsedInput) :
            (/\ ParsedInput[i].tag.local \in ALLOWED_ELEMENTS
             /\ OutputOf(ParsedInput[i].parent) # {})
            => \E k \in OutputOf(i) :
                  /\ res.tree[k].tag = ParsedInput[i].tag
                  /\ \A a \in ParsedInput[i].attrib :
                        Benign(a) => a \in res.tree[k].attrib
====
